---------------------------- MODULE Spec2Model ----------------------------
(***************************************************************************)
(* Model of the position lifecycle engine of the trading bot:              *)
(*   - run_backtest            (src/src/backtester.py)                     *)
(*   - place_market_order,                                                 *)
(*     _format_quantity_for_symbol, live_step_rsi_v1, live_loop_rsi_v1     *)
(*                             (src/src/live_trader.py)                    *)
(*   - the safety gate         (src/src/config.py)                         *)
(*   - the runtime configuration document (src/src/runtime_state.py)       *)
(*   - the live daemon         (src/main_live.py)                          *)
(*                                                                         *)
(* Numbers.  Prices are integers (multiples of 10), percentages are whole  *)
(* percents that are multiples of 10, so every stop-loss / take-profit     *)
(* level entry*(100 +- pct)/100 is an exact integer.  Cash, position size  *)
(* and equity are exact rationals <<num, den>> in lowest terms.            *)
(* Quantities handed to the exchange are integers counted in one fixed     *)
(* quantum of the base asset.  Python's None is the empty sequence and a   *)
(* set value v is <<v>>.                                                   *)
(***************************************************************************)
EXTENDS Integers, Sequences, FiniteSets, TLC

VARIABLES
    \* ---- run_backtest (locals of the function) ----
    stop_loss_pct,      \* argument: None or <<percent>>
    take_profit_pct,    \* argument: None or <<percent>>
    balance_usdt,       \* rational
    position_size,      \* rational, amount of coin
    position_state,     \* "CASH" | "LONG"
    entry_price,        \* None or <<price>>
    entry_time,         \* None or <<timestamp>>
    trades,             \* list of trade records
    equity_curve,       \* list of [time, equity]
    timestamp,          \* loop variable: index of the row being processed
    row,                \* loop variable: the row (bar) being processed
    \* ---- config.py module globals (read from the environment at import) ----
    TRADING_ENV,        \* "testnet" | "live" | anything else
    LIVE_TRADING_CONFIRMATION,
    api_keys,           \* the environments whose API key and secret are in .env
    \* ---- place_market_order ----
    call,               \* the last call: arguments, normalized qty, outcome
    submitted,          \* client.order_market calls made by the last call/cycle
    clients,            \* the clients get_binance_client handed out in the last call or step
    \* ---- runtime_state.py ----
    state_file,         \* config/runtime_state.json: missing, corrupt or a document
    lock,               \* _lock: None or <<thread holding it>>
    th,                 \* per dashboard thread: position, call in progress, local `state`
    default_state,      \* the items of the module-level dict DEFAULT_STATE
    \* ---- main_live.py / live_loop_rsi_v1 ----
    program,            \* the entry point running: "main_live" | "live_loop_rsi_v1" | "live_step_rsi_v1"
    daemon_pc,          \* "start" | "loop" | "raised" | "returned" (a direct call came back)
    args,               \* symbol, interval, ... the loop passes to every cycle
    state,              \* the loop's `state`: None or <<[in_position, entry_price, position_size]>>
    ledger,             \* logs/live_trades.csv: its lines; <<>> is "no file"
    completed_trades,   \* completed_trades returned by the last live_step_rsi_v1
    cycle_exc,          \* the exception the last cycle ended with, "" for none
    cycles,             \* loop iterations done
    latest,             \* latest = df.iloc[-1] of the last cycle: close and RSI
    \* ---- append_trade_to_csv run by concurrent writers ----
    csv_file,           \* the file at `path`: whether it exists, and its rows
    wr,                 \* per writer: position in the call, trade, file_exists
    appended,           \* the calls that returned, in the order they returned
    \* ---- strategy.generate_signals and the entry of run_backtest ----
    df,                 \* the caller's bar table: its columns and its rows
    sig_result,         \* outcome of the last call made on df
    \* ---- run_backtest called twice on the same arguments ----
    run_no,             \* which call is running: 1 or 2
    df_rows,            \* the rows of the DataFrame passed to both calls
    first_run           \* what the first call returned, None before it returns

btVars == <<stop_loss_pct, take_profit_pct, balance_usdt, position_size,
            position_state, entry_price, entry_time, trades, equity_curve,
            timestamp, row>>

envVars == <<TRADING_ENV, LIVE_TRADING_CONFIRMATION, api_keys>>

ordVars == <<call, submitted, clients>>

cfgVars == <<state_file, lock, th, default_state>>

liveVars == <<program, daemon_pc, args, state, ledger, completed_trades, cycle_exc,
             cycles, latest>>

csvVars == <<csv_file, wr, appended>>

sigVars == <<df, sig_result>>

replayVars == <<run_no, df_rows, first_run>>

vars == <<btVars, envVars, ordVars, cfgVars, liveVars, csvVars, sigVars, replayVars>>

-----------------------------------------------------------------------------
(* Optional values and exact rationals *)

None == <<>>

Some(v) == <<v>>

Val(o) == o[1]

\* a missing number: the first rows of an indicator, the mean of no value
NaN == None

RECURSIVE GCD(_, _)
GCD(a, b) == IF b = 0 THEN a ELSE GCD(b, a % b)

Abs(x) == IF x < 0 THEN -x ELSE x

\* <<n, d>> in lowest terms, d > 0
Norm(n, d) ==
    LET g == GCD(Abs(n), Abs(d))
        s == IF d < 0 THEN -1 ELSE 1
    IN  IF n = 0 THEN <<0, 1>> ELSE <<s * (n \div g), s * (d \div g)>>

RInt(k) == <<k, 1>>

\* product, cross-cancelled before multiplying
RMul(a, b) ==
    LET x == Norm(a[1], b[2])
        y == Norm(b[1], a[2])
    IN  Norm(x[1] * y[1], x[2] * y[2])

RDiv(a, b) == RMul(a, <<b[2], b[1]>>)

-----------------------------------------------------------------------------
(* run_backtest: bounds of the inputs *)

\* number of rows of df
MaxBars == 3

\* close / high / low values of a row
Prices == {90, 100, 110}

\* values of the 'signal' column: 1 go long, -1 exit, 0 nothing
Signals == {-1, 0, 1}

\* rows: low <= close <= high
Bars ==
    { b \in [close : Prices, high : Prices, low : Prices, signal : Signals] :
        b.low <= b.close /\ b.close <= b.high }

\* stop_loss_pct / take_profit_pct arguments, in percent
PctArgs == {None, Some(10)}

\* initial_balance argument
initial_balance == 10000

\* fee_rate argument: 1/5 per fill
fee_rate == <<1, 5>>

OneMinusFee == Norm(fee_rate[2] - fee_rate[1], fee_rate[2])

-----------------------------------------------------------------------------
(* run_backtest: the body of the loop over df.iterrows() *)

\* entry_price * (1 +- pct), pct in percent
Level(ep, factor) == (ep * factor) \div 100

\* the locals the loop carries from row to row
Locals ==
    [balance_usdt |-> balance_usdt, position_size |-> position_size,
     position_state |-> position_state, entry_price |-> entry_price,
     entry_time |-> entry_time, trades |-> trades]

\* mutant of RiskExit: the take-profit test runs last and overrides
RiskExitTpLast(ep, bar, sl, tp) ==
    LET hit_sl == sl # None /\ ep # None /\ bar.low <= Level(Val(ep), 100 - Val(sl))
        hit_tp == tp # None /\ ep # None /\ bar.high >= Level(Val(ep), 100 + Val(tp))
    IN  [hit_tp |-> hit_tp, hit_sl |-> hit_sl,
         exit_reason |-> IF hit_tp THEN "take_profit"
                         ELSE IF hit_sl THEN "stop_loss" ELSE "none",
         exit_price |-> IF hit_tp THEN Some(Level(Val(ep), 100 + Val(tp)))
                        ELSE IF hit_sl THEN Some(Level(Val(ep), 100 - Val(sl)))
                        ELSE None]

\* mutant of RiskExit: the stop-loss test is left out
RiskExitNoStopLoss(ep, bar, sl, tp) ==
    LET hit_tp == tp # None /\ ep # None /\ bar.high >= Level(Val(ep), 100 + Val(tp))
    IN  [hit_tp |-> hit_tp, hit_sl |-> FALSE,
         exit_reason |-> IF hit_tp THEN "take_profit" ELSE "none",
         exit_price |-> IF hit_tp THEN Some(Level(Val(ep), 100 + Val(tp)))
                        ELSE None]

\* the take-profit test, then the stop-loss test, which overwrites
\* exit_reason and exit_price when it hits too
RiskExit(ep, bar, sl, tp) ==
    LET hit_tp == tp # None /\ ep # None /\ bar.high >= Level(Val(ep), 100 + Val(tp))
        hit_sl == sl # None /\ ep # None /\ bar.low <= Level(Val(ep), 100 - Val(sl))
    IN  [hit_tp |-> hit_tp, hit_sl |-> hit_sl,
         exit_reason |-> IF hit_sl THEN "stop_loss"
                         ELSE IF hit_tp THEN "take_profit" ELSE "none",
         exit_price |-> IF hit_sl THEN Some(Level(Val(ep), 100 - Val(sl)))
                        ELSE IF hit_tp THEN Some(Level(Val(ep), 100 + Val(tp)))
                        ELSE None]

\* mutant of ClosePosition: entry_price and entry_time are not cleared
ClosePositionKeepsEntry(L, ts, exit_price, exit_reason) ==
    [L EXCEPT
        !.balance_usdt = RMul(RMul(L.position_size, RInt(exit_price)), OneMinusFee),
        !.position_size = RInt(0),
        !.position_state = "CASH",
        !.trades = Append(L.trades,
            [entry_time |-> Val(L.entry_time),
             exit_time |-> ts,
             entry_price |-> Val(L.entry_price),
             exit_price |-> exit_price,
             return_pct |-> Norm((exit_price - Val(L.entry_price)) * 100,
                                 Val(L.entry_price)),
             exit_reason |-> exit_reason])]

\* closing the position at exit_price: cash, trade record, cleared entry
ClosePosition(L, ts, exit_price, exit_reason) ==
    [L EXCEPT
        !.balance_usdt = RMul(RMul(L.position_size, RInt(exit_price)), OneMinusFee),
        !.position_size = RInt(0),
        !.position_state = "CASH",
        !.trades = Append(L.trades,
            [entry_time |-> Val(L.entry_time),
             exit_time |-> ts,
             entry_price |-> Val(L.entry_price),
             exit_price |-> exit_price,
             return_pct |-> Norm((exit_price - Val(L.entry_price)) * 100,
                                 Val(L.entry_price)),
             exit_reason |-> exit_reason]),
        !.entry_price = None,
        !.entry_time = None]

\* mutant of ManageOpenPosition: the signal exit is tested before SL/TP
ManageOpenPositionSignalFirst(L, ts, bar, sl, tp) ==
    IF L.position_state = "LONG"
    THEN LET r == RiskExit(L.entry_price, bar, sl, tp)
         IN  IF bar.signal = -1
             THEN ClosePosition(L, ts, bar.close, "signal")
             ELSE IF r.hit_tp \/ r.hit_sl
                  THEN ClosePosition(L, ts, Val(r.exit_price), r.exit_reason)
                  ELSE L
    ELSE L

\* mutant of ManageOpenPosition: SL/TP exits are filled at the close
ManageOpenPositionAtClose(L, ts, bar, sl, tp) ==
    IF L.position_state = "LONG"
    THEN LET r == RiskExit(L.entry_price, bar, sl, tp)
         IN  IF r.hit_tp \/ r.hit_sl
             THEN ClosePosition(L, ts, bar.close, r.exit_reason)
             ELSE IF bar.signal = -1
                  THEN ClosePosition(L, ts, bar.close, "signal")
                  ELSE L
    ELSE L

\* "Manage open position first (SL/TP + signal exit)"
ManageOpenPosition(L, ts, bar, sl, tp) ==
    IF L.position_state = "LONG"
    THEN LET r == RiskExit(L.entry_price, bar, sl, tp)
         IN  IF r.hit_tp \/ r.hit_sl
             THEN ClosePosition(L, ts, Val(r.exit_price), r.exit_reason)
             ELSE IF bar.signal = -1
                  THEN ClosePosition(L, ts, bar.close, "signal")
                  ELSE L
    ELSE L

\* mutant of CheckEntry: the entry fill pays no fee
CheckEntryNoFee(L, ts, bar) ==
    IF L.position_state = "CASH" /\ bar.signal = 1
    THEN [L EXCEPT
            !.entry_price = Some(bar.close),
            !.entry_time = Some(ts),
            !.position_size = RDiv(L.balance_usdt, RInt(bar.close)),
            !.balance_usdt = RInt(0),
            !.position_state = "LONG"]
    ELSE L

\* "Check for new entries (after exits)": L are the locals after
\* ManageOpenPosition
CheckEntry(L, ts, bar) ==
    IF L.position_state = "CASH" /\ bar.signal = 1
    THEN [L EXCEPT
            !.entry_price = Some(bar.close),
            !.entry_time = Some(ts),
            !.position_size = RDiv(RMul(L.balance_usdt, OneMinusFee), RInt(bar.close)),
            !.balance_usdt = RInt(0),
            !.position_state = "LONG"]
    ELSE L

\* mutant of Equity: cash is marked down by the fee on every bar
EquityFeeDrift(L, bar) ==
    IF L.position_state = "LONG"
    THEN RMul(L.position_size, RInt(bar.close))
    ELSE RMul(L.balance_usdt, OneMinusFee)

\* mutant of Equity: an open position is valued net of the exit fee
EquityNetOfExitFee(L, bar) ==
    IF L.position_state = "LONG"
    THEN RMul(RMul(L.position_size, RInt(bar.close)), OneMinusFee)
    ELSE L.balance_usdt

\* "Compute equity at this bar"
Equity(L, bar) ==
    IF L.position_state = "LONG"
    THEN RMul(L.position_size, RInt(bar.close))
    ELSE L.balance_usdt

\* mutant of BacktestBar: the entry block runs before the exit block
BacktestBarEntryFirst(bar) ==
    /\ timestamp < MaxBars
    /\ LET ts == timestamp + 1
           L1 == CheckEntry(Locals, ts, bar)
           L2 == ManageOpenPosition(L1, ts, bar, stop_loss_pct, take_profit_pct)
       IN  /\ timestamp' = ts
           /\ row' = bar
           /\ balance_usdt' = L2.balance_usdt
           /\ position_size' = L2.position_size
           /\ position_state' = L2.position_state
           /\ entry_price' = L2.entry_price
           /\ entry_time' = L2.entry_time
           /\ trades' = L2.trades
           /\ equity_curve' = Append(equity_curve,
                                     [time |-> ts, equity |-> Equity(L2, bar)])
    /\ UNCHANGED <<stop_loss_pct, take_profit_pct>>
    /\ UNCHANGED <<envVars, ordVars, cfgVars, liveVars, csvVars, sigVars, replayVars>>

\* mutant of ProcessRow: the equity point is computed before the entry block
ProcessRowEquityBeforeEntry(bar) ==
    /\ LET ts == timestamp + 1
           L1 == ManageOpenPosition(Locals, ts, bar, stop_loss_pct, take_profit_pct)
           L2 == CheckEntry(L1, ts, bar)
       IN  /\ timestamp' = ts
           /\ row' = bar
           /\ balance_usdt' = L2.balance_usdt
           /\ position_size' = L2.position_size
           /\ position_state' = L2.position_state
           /\ entry_price' = L2.entry_price
           /\ entry_time' = L2.entry_time
           /\ trades' = L2.trades
           /\ equity_curve' = Append(equity_curve,
                                     [time |-> ts, equity |-> Equity(L1, bar)])
    /\ UNCHANGED <<stop_loss_pct, take_profit_pct>>

\* the body of the loop on row `bar`: exits, entry, equity point
ProcessRow(bar) ==
    /\ LET ts == timestamp + 1
           L1 == ManageOpenPosition(Locals, ts, bar, stop_loss_pct, take_profit_pct)
           L2 == CheckEntry(L1, ts, bar)
       IN  /\ timestamp' = ts
           /\ row' = bar
           /\ balance_usdt' = L2.balance_usdt
           /\ position_size' = L2.position_size
           /\ position_state' = L2.position_state
           /\ entry_price' = L2.entry_price
           /\ entry_time' = L2.entry_time
           /\ trades' = L2.trades
           /\ equity_curve' = Append(equity_curve,
                                     [time |-> ts, equity |-> Equity(L2, bar)])
    /\ UNCHANGED <<stop_loss_pct, take_profit_pct>>

\* one iteration of the loop on row `bar`
BacktestBar(bar) ==
    /\ timestamp < MaxBars
    /\ ProcessRow(bar)
    /\ UNCHANGED <<envVars, ordVars, cfgVars, liveVars, csvVars, sigVars, replayVars>>

NoRow == [close |-> 0, high |-> 0, low |-> 0, signal |-> 0]

BtInit ==
    /\ stop_loss_pct \in PctArgs
    /\ take_profit_pct \in PctArgs
    /\ balance_usdt = RInt(initial_balance)
    /\ position_size = RInt(0)
    /\ position_state = "CASH"
    /\ equity_curve = <<>>
    /\ trades = <<>>
    /\ entry_price = None
    /\ entry_time = None
    /\ timestamp = 0
    /\ row = NoRow

\* run_backtest not running
BtIdle ==
    /\ stop_loss_pct = None
    /\ take_profit_pct = None
    /\ balance_usdt = RInt(initial_balance)
    /\ position_size = RInt(0)
    /\ position_state = "CASH"
    /\ equity_curve = <<>>
    /\ trades = <<>>
    /\ entry_price = None
    /\ entry_time = None
    /\ timestamp = 0
    /\ row = NoRow

BtNext == \E bar \in Bars : BacktestBar(bar)

-----------------------------------------------------------------------------
(* run_backtest: the statistics computed after the loop *)

\* a <= b, for b > 0
RLe(a, b) == LET q == RDiv(a, b) IN q[1] <= q[2]

\* a <= b, any signs; the common factor of the denominators is taken out
RLeq(a, b) ==
    LET g == GCD(a[2], b[2])
    IN  a[1] * (b[2] \div g) <= b[1] * (a[2] \div g)

RAdd(a, b) == Norm(a[1] * b[2] + b[1] * a[2], a[2] * b[2])

\* eq_df["equity"].cummax() at row i
RECURSIVE cummax(_, _)
cummax(eq, i) ==
    IF i = 1 THEN eq[1].equity
    ELSE LET m == cummax(eq, i - 1)
         IN  IF RLe(eq[i].equity, m) THEN m ELSE eq[i].equity

\* mutant of drawdown: the ratio to the running maximum, without the - 1
drawdown_ratio(eq, i) == RDiv(eq[i].equity, cummax(eq, i))

\* eq_df["equity"] / rolling_max - 1.0 at row i
drawdown(eq, i) ==
    LET q == RDiv(eq[i].equity, cummax(eq, i))
    IN  Norm(q[1] - q[2], q[2])

\* drawdown.min() over rows 1..i
RECURSIVE DrawdownMin(_, _)
DrawdownMin(eq, i) ==
    IF i = 1 THEN drawdown(eq, 1)
    ELSE LET m == DrawdownMin(eq, i - 1)
             d == drawdown(eq, i)
         IN  IF RLeq(d, m) THEN d ELSE m

max_drawdown_pct == RMul(DrawdownMin(equity_curve, Len(equity_curve)), RInt(100))

\* eq_df["equity"].iloc[-1]
final_equity == equity_curve[Len(equity_curve)].equity

\* the rows of trades_df with return_pct > 0
wins == SelectSeq(trades, LAMBDA t : t.return_pct[1] > 0)

\* mutant of losses: a return of exactly 0 is left out
losses_strict == SelectSeq(trades, LAMBDA t : t.return_pct[1] < 0)

\* the rows of trades_df with return_pct <= 0
losses == SelectSeq(trades, LAMBDA t : t.return_pct[1] <= 0)

RECURSIVE SumReturns(_)
SumReturns(ts) ==
    IF ts = <<>> THEN RInt(0)
    ELSE RAdd(ts[1].return_pct, SumReturns(Tail(ts)))

\* ["return_pct"].mean(): NaN for an empty selection
MeanReturn(ts) ==
    IF ts = <<>> THEN NaN ELSE Some(RDiv(SumReturns(ts), RInt(Len(ts))))

\* mutant of notna_or_zero: the mean is stored as it is
keep_nan(x) == IF x # NaN THEN Val(x) ELSE NaN

\* `x if pd.notna(x) else 0.0`
notna_or_zero(x) == IF x # NaN THEN Val(x) ELSE RInt(0)

\* trades_df["exit_reason"].value_counts().to_dict()
exit_reason_counts ==
    [r \in {trades[i].exit_reason : i \in 1..Len(trades)} |->
        Cardinality({i \in 1..Len(trades) : trades[i].exit_reason = r})]

\* the stats dictionary
stats ==
    IF trades # <<>>
    THEN [num_trades |-> Len(trades),
          wins |-> Len(wins),
          losses |-> Len(losses),
          win_rate_pct |-> Norm(Len(wins) * 100, Len(trades)),
          avg_return_pct |-> Val(MeanReturn(trades)),
          avg_win_pct |-> notna_or_zero(MeanReturn(wins)),
          avg_loss_pct |-> notna_or_zero(MeanReturn(losses)),
          max_drawdown_pct |-> max_drawdown_pct,
          exit_reasons |-> exit_reason_counts]
    ELSE [num_trades |-> 0,
          wins |-> 0,
          losses |-> 0,
          win_rate_pct |-> RInt(0),
          avg_return_pct |-> RInt(0),
          avg_win_pct |-> RInt(0),
          avg_loss_pct |-> RInt(0),
          max_drawdown_pct |-> max_drawdown_pct,
          exit_reasons |-> <<>>]

-----------------------------------------------------------------------------
(* config.py: the environment, the client factory and the safety gate *)

\* values of TRADING_ENV after .lower(); "paper" stands for any other value
TradingEnvs == {"testnet", "live", "paper"}

\* values of LIVE_TRADING_CONFIRMATION; "" is the default (unset)
Confirmations == {"", "YES_I_UNDERSTAND_THE_RISK", "yes_i_understand_the_risk"}

EnvInit ==
    /\ TRADING_ENV \in TradingEnvs
    /\ LIVE_TRADING_CONFIRMATION \in Confirmations
    /\ api_keys \in SUBSET {"testnet", "live"}

Ok(v) == [ok |-> TRUE, val |-> v, exc |-> ""]

Raise(e) == [ok |-> FALSE, val |-> 0, exc |-> e]

\* get_binance_client: the kind of client built, or RuntimeError
get_binance_client(env, keys) ==
    IF env = "testnet"
    THEN IF "testnet" \in keys THEN Ok("testnet") ELSE Raise("RuntimeError: missing keys")
    ELSE IF env = "live"
         THEN IF "live" \in keys THEN Ok("live") ELSE Raise("RuntimeError: missing keys")
         ELSE Raise("RuntimeError: unknown TRADING_ENV")

\* mutant of ensure_live_trading_allowed: the confirmation is compared
\* case-insensitively and so a wrong string passes
ensure_live_trading_allowed_loose(env, conf) ==
    IF env = "live" /\ conf \notin {"YES_I_UNDERSTAND_THE_RISK", "yes_i_understand_the_risk"}
    THEN Raise("RuntimeError: live trading is BLOCKED")
    ELSE Ok(0)

\* ensure_live_trading_allowed: raises unless the confirmation is the sentinel
ensure_live_trading_allowed(env, conf) ==
    IF env = "live" /\ conf # "YES_I_UNDERSTAND_THE_RISK"
    THEN Raise("RuntimeError: live trading is BLOCKED")
    ELSE Ok(0)

-----------------------------------------------------------------------------
(* live_trader.py: _format_quantity_for_symbol and place_market_order.     *)
(* Quantities, minQty, maxQty and stepSize are integers counted in tenths  *)
(* of one unit of the base asset.                                          *)

Symbols == {"ETHUSDT", "BTCUSDT"}

Sides == {"BUY", "SELL"}

\* desired quantities, in tenths
Quantities == {-1, 0, 1, 4, 5, 7, 15, 30}

\* what client.get_symbol_info returns: a transport error, nothing, an info
\* without LOT_SIZE filter, or an info with one
LotFilters ==
    [kind : {"lot"}, minQty : {1, 5}, maxQty : {20}, stepSize : {0, 1, 2, 5, 10}]

SymbolInfos ==
    [kind : {"error", "none", "no_lot"}, minQty : {0}, maxQty : {0}, stepSize : {0}]
        \cup LotFilters

\* what client.order_market does with a submitted order
ExchangeOutcomes == {"filled", "BinanceAPIException", "Exception"}

Min(a, b) == IF a < b THEN a ELSE b

Max(a, b) == IF a > b THEN a ELSE b

\* max(0, -int(math.log10(step_size))) if step_size < 1 else 0, for a
\* step_size > 0 in tenths: 0.1 gives 1; 0.2 .. 0.9 give 0; >= 1 gives 0
Decimals(step) == IF step = 1 THEN 1 ELSE 0

\* round(qty, decimals) for qty in tenths: the identity for decimals >= 1,
\* and for decimals = 0 the nearest whole unit, halves going to the even one
Round(q, decimals) ==
    IF decimals >= 1 THEN q
    ELSE LET whole == q \div 10
             rest == q % 10
         IN  IF rest < 5 THEN whole * 10
             ELSE IF rest > 5 THEN (whole + 1) * 10
             ELSE IF whole % 2 = 0 THEN whole * 10 ELSE (whole + 1) * 10

\* _format_quantity_for_symbol(client, symbol, quantity), info being what
\* client.get_symbol_info(symbol) returns
format_quantity_for_symbol(info, quantity) ==
    IF info.kind = "error" THEN Raise("Exception: get_symbol_info")
    ELSE IF info.kind \in {"none", "no_lot"} THEN Ok(quantity)
    ELSE LET clamped == Max(info.minQty, Min(quantity, info.maxQty))
             floored == IF info.stepSize > 0
                        THEN (clamped \div info.stepSize) * info.stepSize
                        ELSE clamped
         IN  IF floored < info.minQty THEN Ok(0)
             ELSE IF info.stepSize = 0 THEN Raise("ValueError: math domain error")
             ELSE Ok(Round(floored, Decimals(info.stepSize)))

\* the outcome of a call: ret is "order", "None" or "raise"; qty is the
\* normalized quantity once computed; sent are the client.order_market calls
Outcome(ret, exc, qty, sent) ==
    [ret |-> ret, exc |-> exc, qty |-> qty, sent |-> sent, clients |-> <<>>]

\* mutant of SubmitOrder: a quantity <= 0 is submitted like any other
SubmitOrderAnyQty(client, symbol, side, qty, outcome) ==
    LET order == [client |-> client, symbol |-> symbol, side |-> side, quantity |-> qty]
    IN  IF outcome = "filled"
        THEN Outcome("order", "", Some(qty), <<order>>)
        ELSE Outcome("None", "", Some(qty), <<order>>)

\* mutant of SubmitOrder: a rejected order is submitted a second time
SubmitOrderRetry(client, symbol, side, qty, outcome) ==
    LET order == [client |-> client, symbol |-> symbol, side |-> side, quantity |-> qty]
    IN  IF qty <= 0
        THEN Outcome("None", "", Some(qty), <<>>)
        ELSE IF outcome = "filled"
             THEN Outcome("order", "", Some(qty), <<order>>)
             ELSE Outcome("None", "", Some(qty), <<order, order>>)

\* place_market_order from the `if qty <= 0` test on
SubmitOrder(client, symbol, side, qty, outcome) ==
    LET order == [client |-> client, symbol |-> symbol, side |-> side, quantity |-> qty]
    IN  IF qty <= 0
        THEN Outcome("None", "", Some(qty), <<>>)
        ELSE IF outcome = "filled"
             THEN Outcome("order", "", Some(qty), <<order>>)
             ELSE Outcome("None", "", Some(qty), <<order>>)

\* place_market_order(symbol, side, quantity) in environment (env, conf, keys)
\* against an exchange that answers get_symbol_info with info and
\* order_market with outcome
place_market_order(env, conf, keys, symbol, side, quantity, info, outcome) ==
    LET gate == ensure_live_trading_allowed(env, conf)
        client == get_binance_client(env, keys)
        qty == format_quantity_for_symbol(info, quantity)
    IN  IF ~gate.ok THEN Outcome("raise", gate.exc, None, <<>>)
        ELSE IF ~client.ok THEN Outcome("raise", client.exc, None, <<>>)
        ELSE [ (IF ~qty.ok THEN Outcome("raise", qty.exc, None, <<>>)
                ELSE SubmitOrder(client.val, symbol, side, qty.val, outcome))
               EXCEPT !.clients = <<client.val>> ]

NoCall ==
    [symbol |-> "", side |-> "", quantity |-> 0,
     info |-> [kind |-> "none", minQty |-> 0, maxQty |-> 0, stepSize |-> 0],
     ret |-> "", exc |-> "", qty |-> None]

OrdIdle ==
    /\ call = NoCall
    /\ submitted = <<>>
    /\ clients = <<>>

\* one call of place_market_order
PlaceMarketOrder(symbol, side, quantity, info, outcome) ==
    /\ call = NoCall
    /\ LET r == place_market_order(TRADING_ENV, LIVE_TRADING_CONFIRMATION, api_keys,
                                   symbol, side, quantity, info, outcome)
       IN  /\ call' = [symbol |-> symbol, side |-> side, quantity |-> quantity,
                       info |-> info, ret |-> r.ret, exc |-> r.exc, qty |-> r.qty]
           /\ submitted' = r.sent
           /\ clients' = r.clients
    /\ UNCHANGED <<envVars, btVars, cfgVars, liveVars, csvVars, sigVars, replayVars>>

OrdNext ==
    \E symbol \in Symbols, side \in Sides, quantity \in Quantities,
       info \in SymbolInfos, outcome \in ExchangeOutcomes :
         PlaceMarketOrder(symbol, side, quantity, info, outcome)

-----------------------------------------------------------------------------
(* runtime_state.py: the runtime configuration document.  RSI thresholds   *)
(* are whole numbers and take_profit_pct is in percent.                    *)

Fields ==
    {"bot_enabled", "symbol", "interval", "history_candles", "position_size_usdt",
     "entry_rsi", "exit_rsi", "take_profit_pct", "initial_equity_usdt"}

DEFAULT_STATE ==
    [bot_enabled |-> FALSE, symbol |-> "ETHUSDT", interval |-> "15m",
     history_candles |-> 200, position_size_usdt |-> 100, entry_rsi |-> 25,
     exit_rsi |-> 80, take_profit_pct |-> 4, initial_equity_usdt |-> 10000]

MissingFile == [kind |-> "missing", doc |-> [bot_enabled |-> FALSE]]

CorruptFile == [kind |-> "corrupt", doc |-> [bot_enabled |-> FALSE]]

JsonFile(doc) == [kind |-> "json", doc |-> doc]

\* mutant of dict_copy: the dict itself is handed out
dict_alias(d, shared) == [doc |-> d, shared |-> shared]

\* d.copy(): a new dict with the items of d, shared with nobody
dict_copy(d, shared) == [doc |-> d, shared |-> FALSE]

\* the dict load_state returns: DEFAULT_STATE.copy() for a missing or
\* unparsable file, else that copy updated with the fields the document
\* holds; `shared` says whether the dict is the DEFAULT_STATE object itself
LoadedDict(file) ==
    LET merged == dict_copy(default_state, TRUE)
    IN  IF file.kind = "missing" THEN merged
        ELSE IF file.kind = "corrupt" THEN merged
        ELSE [doc |-> [f \in DOMAIN merged.doc \cup DOMAIN file.doc |->
                         IF f \in DOMAIN file.doc THEN file.doc[f]
                         ELSE merged.doc[f]],
              shared |-> merged.shared]

\* load_state: the items of the dict returned
load_state(file) == LoadedDict(file).doc

\* save_state: the file is replaced by the document
save_state(doc) == JsonFile(doc)

\* the values a dashboard form passes to update_config_from_dashboard
FormValues ==
    [symbol : Symbols, interval : {"15m"}, history_candles : {200},
     position_size_usdt : {100}, entry_rsi : {25}, exit_rsi : {80},
     take_profit_pct : {4, 10}, initial_equity_usdt : {10000}]

\* the bot_enabled argument of update_config_from_dashboard
BotEnabledArgs == {None, Some(TRUE), Some(FALSE)}

NoForm == CHOOSE f \in FormValues : f.symbol = "ETHUSDT" /\ f.take_profit_pct = 4

\* the calls a dashboard thread makes
Ops ==
    [name : {"set_bot_enabled"}, enabled : {Some(TRUE), Some(FALSE)}, form : {NoForm}]
        \cup [name : {"update_config_from_dashboard"}, enabled : BotEnabledArgs,
              form : FormValues]

\* the assignments set_bot_enabled / update_config_from_dashboard make to
\* the loaded `state` (doc) between load_state and save_state
Modify(doc, op) ==
    IF op.name = "set_bot_enabled"
    THEN [doc EXCEPT !.bot_enabled = Val(op.enabled)]
    ELSE LET s1 == [doc EXCEPT
                        !.symbol = op.form.symbol,
                        !.interval = op.form.interval,
                        !.history_candles = op.form.history_candles,
                        !.position_size_usdt = op.form.position_size_usdt,
                        !.entry_rsi = op.form.entry_rsi,
                        !.exit_rsi = op.form.exit_rsi,
                        !.take_profit_pct = op.form.take_profit_pct,
                        !.initial_equity_usdt = op.form.initial_equity_usdt]
         IN  IF op.enabled # None
             THEN [s1 EXCEPT !.bot_enabled = Val(op.enabled)]
             ELSE s1

\* number of dashboard threads calling into runtime_state at once
Threads == {1, 2}

NoOp == [name |-> "set_bot_enabled", enabled |-> Some(FALSE), form |-> NoForm]

IdleThread == [pc |-> "idle", op |-> NoOp, local |-> DEFAULT_STATE, shared |-> FALSE]

\* the documents the file may hold when the program starts
InitialFiles ==
    {MissingFile, CorruptFile, JsonFile([bot_enabled |-> TRUE]),
     JsonFile([DEFAULT_STATE EXCEPT !.symbol = "BTCUSDT"])}

CfgInit ==
    /\ state_file \in InitialFiles
    /\ lock = None
    /\ th = [t \in Threads |-> IdleThread]
    /\ default_state = DEFAULT_STATE

CfgIdle ==
    /\ state_file = MissingFile
    /\ lock = None
    /\ th = [t \in Threads |-> IdleThread]
    /\ default_state = DEFAULT_STATE

\* thread t calls set_bot_enabled or update_config_from_dashboard
Call(t, op) ==
    /\ th[t].pc = "idle"
    /\ th' = [th EXCEPT ![t] = [pc |-> "load_state", op |-> op,
                               local |-> DEFAULT_STATE, shared |-> FALSE]]
    /\ UNCHANGED <<state_file, lock, default_state>>
    /\ UNCHANGED <<btVars, envVars, ordVars, liveVars, csvVars, sigVars, replayVars>>

\* load_state: `with _lock:` entered
LoadAcquire(t) ==
    /\ th[t].pc = "load_state"
    /\ lock = None
    /\ lock' = Some(t)
    /\ th' = [th EXCEPT ![t].pc = "load_locked"]
    /\ UNCHANGED <<state_file, default_state>>
    /\ UNCHANGED <<btVars, envVars, ordVars, liveVars, csvVars, sigVars, replayVars>>

\* load_state: the file is read and merged, the lock released on return
LoadRead(t) ==
    /\ th[t].pc = "load_locked"
    /\ lock = Some(t)
    /\ lock' = None
    /\ th' = [th EXCEPT ![t].pc = "loaded",
                         ![t].local = load_state(state_file),
                         ![t].shared = LoadedDict(state_file).shared]
    /\ default_state' = IF LoadedDict(state_file).shared
                        THEN load_state(state_file) ELSE default_state
    /\ UNCHANGED state_file
    /\ UNCHANGED <<btVars, envVars, ordVars, liveVars, csvVars, sigVars, replayVars>>

\* the caller's assignments to its local `state`, outside the lock
ModifyLocal(t) ==
    /\ th[t].pc = "loaded"
    /\ th' = [th EXCEPT ![t].pc = "save_state", ![t].local = Modify(th[t].local, th[t].op)]
    /\ default_state' = IF th[t].shared
                        THEN Modify(th[t].local, th[t].op) ELSE default_state
    /\ UNCHANGED <<state_file, lock>>
    /\ UNCHANGED <<btVars, envVars, ordVars, liveVars, csvVars, sigVars, replayVars>>

\* save_state: `with _lock:` entered
SaveAcquire(t) ==
    /\ th[t].pc = "save_state"
    /\ lock = None
    /\ lock' = Some(t)
    /\ th' = [th EXCEPT ![t].pc = "save_locked"]
    /\ UNCHANGED <<state_file, default_state>>
    /\ UNCHANGED <<btVars, envVars, ordVars, liveVars, csvVars, sigVars, replayVars>>

\* save_state: the document is written, the lock released, the call returns
SaveWrite(t) ==
    /\ th[t].pc = "save_locked"
    /\ lock = Some(t)
    /\ lock' = None
    /\ state_file' = save_state(th[t].local)
    /\ th' = [th EXCEPT ![t].pc = "done"]
    /\ UNCHANGED default_state
    /\ UNCHANGED <<btVars, envVars, ordVars, liveVars, csvVars, sigVars, replayVars>>

CfgNext ==
    \E t \in Threads :
        \/ \E op \in Ops : Call(t, op)
        \/ LoadAcquire(t)
        \/ LoadRead(t)
        \/ ModifyLocal(t)
        \/ SaveAcquire(t)
        \/ SaveWrite(t)

-----------------------------------------------------------------------------
(* live_trader.py: live_step_rsi_v1 and live_loop_rsi_v1.  Prices are      *)
(* integers, RSI values whole numbers, position sizes in tenths of a unit. *)

\* loop iterations of the daemon
MaxCycles == 3

\* close of the latest candle
LivePrices == {50, 100, 125}

\* RSI of the latest candle
RsiValues == {20, 50, 90}

\* what get_historical_klines + add_indicators give for the latest candle,
\* or a failure of the fetch
Fetches ==
    [ok : {TRUE}, close : LivePrices, RSI : RsiValues]
        \cup [ok : {FALSE}, close : {0}, RSI : {0}]

\* the answers of client.get_symbol_info met by the live loop
LiveInfos ==
    { i \in SymbolInfos :
        \/ i.kind = "error"
        \/ i.kind = "lot" /\ i.minQty = 1 /\ i.stepSize = 1
        \/ i.kind = "lot" /\ i.minQty = 5 /\ i.stepSize = 10 }

\* rsi_v1_signals on the latest row: buy below entry_rsi, sell above
\* exit_rsi, the sell assignment coming last
rsi_v1_signal(rsi, entry_rsi, exit_rsi) ==
    IF rsi > exit_rsi THEN -1 ELSE IF rsi < entry_rsi THEN 1 ELSE 0

FlatState == [in_position |-> FALSE, entry_price |-> None, position_size |-> 0]

HeaderRow ==
    [kind |-> "header", time |-> 0, symbol |-> "symbol", side |-> "side", size |-> 0,
     entry_price |-> 0, exit_price |-> 0, return_pct |-> <<0, 1>>,
     exit_reason |-> "exit_reason"]

\* the trade dict built on an exit at `price`
LiveTrade(now, symbol, st, price, reason) ==
    [kind |-> "trade", time |-> now, symbol |-> symbol, side |-> "LONG",
     size |-> st.position_size, entry_price |-> Val(st.entry_price),
     exit_price |-> price,
     return_pct |-> Norm((price - Val(st.entry_price)) * 100, Val(st.entry_price)),
     exit_reason |-> reason]

\* append_trade_to_csv: the header goes first when the file does not exist
append_trade_to_csv(file, trade) ==
    IF file = <<>> THEN <<HeaderRow, trade>> ELSE Append(file, trade)

\* the record of a place_market_order call, as kept in `call`
CallRecord(symbol, side, quantity, info, r) ==
    [symbol |-> symbol, side |-> side, quantity |-> quantity, info |-> info,
     ret |-> r.ret, exc |-> r.exc, qty |-> r.qty]

\* what one cycle leaves behind: the new `state` of the loop, the exception
\* it ended with, its place_market_order call, the orders sent, the ledger
\* and completed_trades; the clients it was handed are set by WithClients
StepResult(st, exc, c, sent, file, done) ==
    [state |-> st, exc |-> exc, call |-> c, sent |-> sent, ledger |-> file,
     completed |-> done, clients |-> <<>>]

\* the cycle r, having been handed the clients cs by get_binance_client
WithClients(cs, r) == [r EXCEPT !.clients = cs]

\* mutant of StepExit: a filled exit is followed by a BUY in the same step
StepExitThenEntry(old, st, a, now, price, reason, r, info, ledger_ok, file) ==
    LET c == CallRecord(a.symbol, "SELL", st.position_size, info, r)
        trade == LiveTrade(now, a.symbol, st, price, reason)
    IN  IF r.ret = "raise" THEN StepResult(old, r.exc, c, r.sent, file, <<>>)
        ELSE IF r.ret = "order"
             THEN StepResult(Some([in_position |-> TRUE, entry_price |-> Some(price),
                                   position_size |-> st.position_size]),
                             "", c, r.sent \o r.sent,
                             append_trade_to_csv(file, trade), <<trade>>)
             ELSE StepResult(Some(st), "", c, r.sent, file, <<>>)

\* mutant of StepExit: the trade is recorded whatever place_market_order
\* returned
StepExitRecordsFailedSell(old, st, a, now, price, reason, r, info, ledger_ok, file) ==
    LET c == CallRecord(a.symbol, "SELL", st.position_size, info, r)
        trade == LiveTrade(now, a.symbol, st, price, reason)
    IN  IF r.ret = "raise" THEN StepResult(old, r.exc, c, r.sent, file, <<>>)
        ELSE IF ~ledger_ok
             THEN StepResult(old, "OSError: live_trades.csv", c, r.sent, file, <<>>)
             ELSE IF r.ret = "order"
                  THEN StepResult(Some(FlatState), "", c, r.sent,
                                  append_trade_to_csv(file, trade), <<trade>>)
                  ELSE StepResult(Some(st), "", c, r.sent,
                                  append_trade_to_csv(file, trade), <<trade>>)

\* the exit branches of live_step_rsi_v1: SELL, and only on a returned
\* order the trade, the ledger row and the flat state
StepExit(old, st, a, now, price, reason, r, info, ledger_ok, file) ==
    LET c == CallRecord(a.symbol, "SELL", st.position_size, info, r)
        trade == LiveTrade(now, a.symbol, st, price, reason)
    IN  IF r.ret = "raise" THEN StepResult(old, r.exc, c, r.sent, file, <<>>)
        ELSE IF r.ret = "order"
             THEN IF ledger_ok
                  THEN StepResult(Some(FlatState), "", c, r.sent,
                                  append_trade_to_csv(file, trade), <<trade>>)
                  ELSE StepResult(old, "OSError: live_trades.csv", c, r.sent, file, <<>>)
             ELSE StepResult(Some(st), "", c, r.sent, file, <<>>)

\* mutant of StepEntry: the position is marked open whatever
\* place_market_order returned
StepEntryAssumeFilled(old, st, a, price, r, info, file) ==
    LET qty == (a.position_size_usdt * 10) \div price
        c == CallRecord(a.symbol, "BUY", qty, info, r)
    IN  IF r.ret = "raise" THEN StepResult(old, r.exc, c, r.sent, file, <<>>)
        ELSE StepResult(Some([in_position |-> TRUE, entry_price |-> Some(price),
                              position_size |-> qty]),
                        "", c, r.sent, file, <<>>)

\* the entry branch of live_step_rsi_v1
StepEntry(old, st, a, price, r, info, file) ==
    LET qty == (a.position_size_usdt * 10) \div price
        c == CallRecord(a.symbol, "BUY", qty, info, r)
    IN  IF r.ret = "raise" THEN StepResult(old, r.exc, c, r.sent, file, <<>>)
        ELSE IF r.ret = "order"
             THEN StepResult(Some([in_position |-> TRUE, entry_price |-> Some(price),
                                   position_size |-> qty]),
                             "", c, r.sent, file, <<>>)
             ELSE StepResult(Some(st), "", c, r.sent, file, <<>>)

\* no candle: the cycle did not get as far as `latest = df.iloc[-1]`
NoLatest == [ok |-> FALSE, close |-> 0, RSI |-> 0]

\* mutant of FetchFailed: the failed cycle hands back a fresh (flat) state
FetchFailedResetsState(old, file) ==
    StepResult(Some(FlatState), "Exception: get_klines", NoCall, <<>>, file, <<>>)

\* get_historical_klines raises: the exception leaves the function before
\* any order, any ledger row and any assignment to `state`
FetchFailed(old, file) ==
    StepResult(old, "Exception: get_klines", NoCall, <<>>, file, <<>>)

\* the `latest` a cycle of live_step_rsi_v1 computed, if it got that far
Latest(env, keys, fetch) ==
    IF env = "testnet" /\ get_binance_client(env, keys).ok /\ fetch.ok
    THEN fetch
    ELSE NoLatest

\* mutant of live_step_rsi_v1: the client is made before TRADING_ENV is tested
live_step_client_first(old, a, now, env, conf, keys, fetch, info, outcome, ledger_ok, file) ==
    LET client == get_binance_client(env, keys)
        st == IF old = None THEN FlatState ELSE Val(old)
        price == fetch.close
        signal == rsi_v1_signal(fetch.RSI, a.entry_rsi, a.exit_rsi)
        sell == place_market_order(env, conf, keys, a.symbol, "SELL",
                                   st.position_size, info, outcome)
        buy == place_market_order(env, conf, keys, a.symbol, "BUY",
                                  (a.position_size_usdt * 10) \div price, info, outcome)
    IN  IF ~client.ok THEN StepResult(old, client.exc, NoCall, <<>>, file, <<>>)
        ELSE IF env # "testnet"
        THEN WithClients(<<client.val>>,
                 StepResult(old, "RuntimeError: TRADING_ENV must be testnet", NoCall,
                            <<>>, file, <<>>))
        ELSE IF ~fetch.ok THEN WithClients(<<client.val>>, FetchFailed(old, file))
        ELSE IF st.in_position
             THEN IF price * 100 >= Val(st.entry_price) * (100 + a.take_profit_pct)
                  THEN WithClients(<<client.val>> \o sell.clients,
                           StepExit(old, st, a, now, price, "take_profit", sell, info,
                                    ledger_ok, file))
                  ELSE IF signal = -1
                       THEN WithClients(<<client.val>> \o sell.clients,
                                StepExit(old, st, a, now, price, "signal", sell, info,
                                         ledger_ok, file))
                       ELSE WithClients(<<client.val>>,
                                StepResult(Some(st), "", NoCall, <<>>, file, <<>>))
             ELSE IF signal = 1
                  THEN WithClients(<<client.val>> \o buy.clients,
                           StepEntry(old, st, a, price, buy, info, file))
                  ELSE WithClients(<<client.val>>,
                           StepResult(Some(st), "", NoCall, <<>>, file, <<>>))

\* live_step_rsi_v1(state, **a) at time `now`, the exchange answering with
\* fetch, info and outcome, the ledger file being writable or not.  An
\* exception leaves the caller's `state` as it was (old).
live_step_rsi_v1(old, a, now, env, conf, keys, fetch, info, outcome, ledger_ok, file) ==
    LET client == get_binance_client(env, keys)
        st == IF old = None THEN FlatState ELSE Val(old)
        price == fetch.close
        signal == rsi_v1_signal(fetch.RSI, a.entry_rsi, a.exit_rsi)
        sell == place_market_order(env, conf, keys, a.symbol, "SELL",
                                   st.position_size, info, outcome)
        buy == place_market_order(env, conf, keys, a.symbol, "BUY",
                                  (a.position_size_usdt * 10) \div price, info, outcome)
    IN  IF env # "testnet"
        THEN StepResult(old, "RuntimeError: TRADING_ENV must be testnet", NoCall, <<>>, file, <<>>)
        ELSE IF ~client.ok THEN StepResult(old, client.exc, NoCall, <<>>, file, <<>>)
        ELSE IF ~fetch.ok THEN WithClients(<<client.val>>, FetchFailed(old, file))
        ELSE IF st.in_position
             THEN IF price * 100 >= Val(st.entry_price) * (100 + a.take_profit_pct)
                  THEN WithClients(<<client.val>> \o sell.clients,
                           StepExit(old, st, a, now, price, "take_profit", sell, info,
                                    ledger_ok, file))
                  ELSE IF signal = -1
                       THEN WithClients(<<client.val>> \o sell.clients,
                                StepExit(old, st, a, now, price, "signal", sell, info,
                                         ledger_ok, file))
                       ELSE WithClients(<<client.val>>,
                                StepResult(Some(st), "", NoCall, <<>>, file, <<>>))
             ELSE IF signal = 1
                  THEN WithClients(<<client.val>> \o buy.clients,
                           StepEntry(old, st, a, price, buy, info, file))
                  ELSE WithClients(<<client.val>>,
                           StepResult(Some(st), "", NoCall, <<>>, file, <<>>))

\* the exit branches of live_loop_rsi_v1: SELL, then the flat state whatever
\* place_market_order returned; no ledger row
LoopExit(old, st, a, r, info, file) ==
    LET c == CallRecord(a.symbol, "SELL", st.position_size, info, r)
    IN  IF r.ret = "raise" THEN StepResult(old, r.exc, c, r.sent, file, <<>>)
        ELSE StepResult(Some(FlatState), "", c, r.sent, file, <<>>)

\* the entry branch of live_loop_rsi_v1
LoopEntry(old, st, a, price, r, info, file) ==
    LET qty == (a.position_size_usdt * 10) \div price
        c == CallRecord(a.symbol, "BUY", qty, info, r)
    IN  IF r.ret = "raise" THEN StepResult(old, r.exc, c, r.sent, file, <<>>)
        ELSE IF r.ret = "order"
             THEN StepResult(Some([in_position |-> TRUE, entry_price |-> Some(price),
                                   position_size |-> qty]),
                             "", c, r.sent, file, <<>>)
             ELSE StepResult(Some(FlatState), "", c, r.sent, file, <<>>)

\* one iteration of the `while True` of live_loop_rsi_v1
live_loop_cycle(old, a, env, conf, keys, fetch, info, outcome, file) ==
    LET st == Val(old)
        price == fetch.close
        signal == rsi_v1_signal(fetch.RSI, a.entry_rsi, a.exit_rsi)
        sell == place_market_order(env, conf, keys, a.symbol, "SELL",
                                   st.position_size, info, outcome)
        buy == place_market_order(env, conf, keys, a.symbol, "BUY",
                                  (a.position_size_usdt * 10) \div price, info, outcome)
    IN  IF ~fetch.ok THEN FetchFailed(old, file)
        ELSE IF st.in_position
             THEN IF price * 100 >= Val(st.entry_price) * (100 + a.take_profit_pct)
                  THEN WithClients(sell.clients, LoopExit(old, st, a, sell, info, file))
                  ELSE IF signal = -1
                       THEN WithClients(sell.clients,
                                LoopExit(old, st, a, sell, info, file))
                       ELSE StepResult(old, "", NoCall, <<>>, file, <<>>)
             ELSE IF signal = 1
                  THEN WithClients(buy.clients,
                           LoopEntry(old, st, a, price, buy, info, file))
                  ELSE StepResult(old, "", NoCall, <<>>, file, <<>>)

-----------------------------------------------------------------------------
(* main_live.py and live_loop_rsi_v1: the loops; the dashboard's buttons *)

\* mutant of AfterCycle: an exception raised in a cycle leaves the loop
AfterCycleUncaught(exc) == IF exc = "" THEN "loop" ELSE "raised"

\* where the program stands after a cycle that ended with exception exc
\* ("" for none): `except Exception` catches it and prints it, the sleep
\* follows, and `while True` starts the next cycle
AfterCycle(exc) == IF exc = "KeyboardInterrupt" THEN "stopped" ELSE "loop"

\* the locals main() sets before its loop
DaemonArgs ==
    [symbol |-> "ETHUSDT", interval |-> "15m", history_candles |-> 200,
     position_size_usdt |-> 100, entry_rsi |-> 25, exit_rsi |-> 80,
     take_profit_pct |-> 4]

\* the parameters of live_loop_rsi_v1 (its defaults)
LoopArgs ==
    [symbol |-> "BTCUSDT", interval |-> "15m", history_candles |-> 200,
     position_size_usdt |-> 100, entry_rsi |-> 25, exit_rsi |-> 80,
     take_profit_pct |-> 4]

LiveInit ==
    /\ program \in {"main_live", "live_loop_rsi_v1"}
    /\ daemon_pc = "start"
    /\ args = IF program = "main_live" THEN DaemonArgs ELSE LoopArgs
    /\ state = None
    /\ ledger = <<>>
    /\ completed_trades = <<>>
    /\ cycle_exc = ""
    /\ cycles = 0
    /\ latest = NoLatest

LiveIdle ==
    /\ program = "main_live"
    /\ daemon_pc = "start"
    /\ args = DaemonArgs
    /\ state = None
    /\ ledger = <<>>
    /\ completed_trades = <<>>
    /\ cycle_exc = ""
    /\ cycles = 0
    /\ latest = NoLatest

\* main(): the TRADING_ENV test, then `state = None` and the locals
MainLiveStart ==
    /\ program = "main_live"
    /\ daemon_pc = "start"
    /\ IF TRADING_ENV # "testnet"
       THEN /\ daemon_pc' = "raised"
            /\ cycle_exc' = "RuntimeError: TRADING_ENV must be testnet"
       ELSE /\ daemon_pc' = "loop"
            /\ cycle_exc' = ""
    /\ state' = None
    /\ UNCHANGED <<program, args, ledger, completed_trades, cycles, latest>>
    /\ UNCHANGED <<btVars, envVars, ordVars, cfgVars, csvVars, sigVars, replayVars>>

\* one iteration of main()'s `while True`: live_step_rsi_v1 inside
\* try/except Exception, then the sleep
MainLiveCycle(fetch, info, outcome, ledger_ok) ==
    /\ program = "main_live"
    /\ daemon_pc = "loop"
    /\ cycles < MaxCycles
    /\ LET r == live_step_rsi_v1(state, args, cycles + 1, TRADING_ENV,
                                 LIVE_TRADING_CONFIRMATION, api_keys,
                                 fetch, info, outcome, ledger_ok, ledger)
       IN  /\ state' = r.state
           /\ cycle_exc' = r.exc
           /\ call' = r.call
           /\ submitted' = r.sent
           /\ clients' = r.clients
           /\ ledger' = r.ledger
           /\ completed_trades' = IF r.exc = "" THEN r.completed ELSE completed_trades
           /\ daemon_pc' = AfterCycle(r.exc)
    /\ latest' = Latest(TRADING_ENV, api_keys, fetch)
    /\ cycles' = cycles + 1
    /\ UNCHANGED <<program, args>>
    /\ UNCHANGED <<btVars, envVars, cfgVars, csvVars, sigVars, replayVars>>

\* live_loop_rsi_v1 up to its loop: the TRADING_ENV test, the client, `state`
LiveLoopStart ==
    /\ program = "live_loop_rsi_v1"
    /\ daemon_pc = "start"
    /\ LET client == get_binance_client(TRADING_ENV, api_keys)
       IN  IF TRADING_ENV # "testnet"
           THEN /\ daemon_pc' = "raised"
                /\ cycle_exc' = "RuntimeError: TRADING_ENV must be testnet"
                /\ state' = None
                /\ clients' = <<>>
           ELSE IF ~client.ok
                THEN /\ daemon_pc' = "raised"
                     /\ cycle_exc' = client.exc
                     /\ state' = None
                     /\ clients' = <<>>
                ELSE /\ daemon_pc' = "loop"
                     /\ cycle_exc' = ""
                     /\ state' = Some(FlatState)
                     /\ clients' = <<client.val>>
    /\ UNCHANGED <<program, args, ledger, completed_trades, cycles, latest>>
    /\ UNCHANGED <<call, submitted>>
    /\ UNCHANGED <<btVars, envVars, cfgVars, csvVars, sigVars, replayVars>>

\* one iteration of the `while True` of live_loop_rsi_v1, then the sleep
LiveLoopCycle(fetch, info, outcome) ==
    /\ program = "live_loop_rsi_v1"
    /\ daemon_pc = "loop"
    /\ cycles < MaxCycles
    /\ LET r == live_loop_cycle(state, args, TRADING_ENV, LIVE_TRADING_CONFIRMATION,
                                api_keys, fetch, info, outcome, ledger)
       IN  /\ state' = r.state
           /\ cycle_exc' = r.exc
           /\ call' = r.call
           /\ submitted' = r.sent
           /\ clients' = r.clients
           /\ ledger' = r.ledger
           /\ daemon_pc' = AfterCycle(r.exc)
    /\ latest' = fetch
    /\ cycles' = cycles + 1
    /\ UNCHANGED <<program, args, completed_trades>>
    /\ UNCHANGED <<btVars, envVars, cfgVars, csvVars, sigVars, replayVars>>

\* the `state` a caller of live_step_rsi_v1 may hold: none yet, flat, or long
CallerStates ==
    {None, Some(FlatState),
     Some([in_position |-> TRUE, entry_price |-> Some(100), position_size |-> 10])}

\* live_step_rsi_v1 or live_loop_rsi_v1 about to be called by a caller other
\* than main(), with the default parameters
CallInit ==
    /\ program \in {"live_step_rsi_v1", "live_loop_rsi_v1"}
    /\ daemon_pc = "start"
    /\ args = IF program = "live_step_rsi_v1" THEN DaemonArgs ELSE LoopArgs
    /\ state \in IF program = "live_step_rsi_v1" THEN CallerStates ELSE {None}
    /\ ledger = <<>>
    /\ completed_trades = <<>>
    /\ cycle_exc = ""
    /\ cycles = 0
    /\ latest = NoLatest

\* one call live_step_rsi_v1(state) by such a caller: an exception leaves
\* the function and the caller keeps the `state` it passed
LiveStepCall(fetch, info, outcome, ledger_ok) ==
    /\ program = "live_step_rsi_v1"
    /\ cycles < MaxCycles
    /\ LET r == live_step_rsi_v1(state, args, cycles + 1, TRADING_ENV,
                                 LIVE_TRADING_CONFIRMATION, api_keys,
                                 fetch, info, outcome, ledger_ok, ledger)
       IN  /\ state' = r.state
           /\ cycle_exc' = r.exc
           /\ call' = r.call
           /\ submitted' = r.sent
           /\ clients' = r.clients
           /\ ledger' = r.ledger
           /\ completed_trades' = IF r.exc = "" THEN r.completed ELSE completed_trades
           /\ daemon_pc' = IF r.exc = "" THEN "returned" ELSE "raised"
    /\ latest' = Latest(TRADING_ENV, api_keys, fetch)
    /\ cycles' = cycles + 1
    /\ UNCHANGED <<program, args>>
    /\ UNCHANGED <<btVars, envVars, cfgVars, csvVars, sigVars, replayVars>>

\* dashboard, "Start Bot on Server": update_config_from_dashboard(form
\* values, bot_enabled=True), run to completion
DashboardStart(form) ==
    /\ state_file' = save_state(Modify(load_state(state_file),
            [name |-> "update_config_from_dashboard", enabled |-> Some(TRUE),
             form |-> form]))
    /\ default_state' =
          IF LoadedDict(state_file).shared
          THEN Modify(load_state(state_file),
                 [name |-> "update_config_from_dashboard", enabled |-> Some(TRUE),
                  form |-> form])
          ELSE default_state
    /\ UNCHANGED <<lock, th>>
    /\ UNCHANGED <<btVars, envVars, ordVars, liveVars, csvVars, sigVars, replayVars>>

\* dashboard, "Stop Bot on Server": set_bot_enabled(False), run to completion
DashboardStop ==
    /\ state_file' = save_state(Modify(load_state(state_file),
            [name |-> "set_bot_enabled", enabled |-> Some(FALSE), form |-> NoForm]))
    /\ default_state' =
          IF LoadedDict(state_file).shared
          THEN Modify(load_state(state_file),
                 [name |-> "set_bot_enabled", enabled |-> Some(FALSE), form |-> NoForm])
          ELSE default_state
    /\ UNCHANGED <<lock, th>>
    /\ UNCHANGED <<btVars, envVars, ordVars, liveVars, csvVars, sigVars, replayVars>>

\* the environments the live programs are started in
LiveEnvInit ==
    /\ TRADING_ENV \in TradingEnvs
    /\ LIVE_TRADING_CONFIRMATION \in {"", "YES_I_UNDERSTAND_THE_RISK"}
    /\ api_keys \in {{}, {"testnet", "live"}}

LiveNext ==
    \/ MainLiveStart
    \/ LiveLoopStart
    \/ \E fetch \in Fetches, info \in LiveInfos, outcome \in ExchangeOutcomes,
          ledger_ok \in BOOLEAN :
            MainLiveCycle(fetch, info, outcome, ledger_ok)
    \/ \E fetch \in Fetches, info \in LiveInfos, outcome \in ExchangeOutcomes :
            LiveLoopCycle(fetch, info, outcome)
    \/ \E form \in FormValues : DashboardStart(form)
    \/ DashboardStop

-----------------------------------------------------------------------------
(* live_trader.py: append_trade_to_csv, statement by statement, called by  *)
(* writers that run at the same time (two processes running the daemon)    *)

\* calls of append_trade_to_csv made in all
MaxAppends == 3

\* the processes that call append_trade_to_csv
Writers == {1, 2}

\* no file at `path`
MissingCsv == [exists |-> FALSE, rows |-> <<>>]

NoTrade == [HeaderRow EXCEPT !.kind = "none"]

IdleWriter == [pc |-> "idle", trade |-> NoTrade, file_exists |-> FALSE]

\* the trade dicts handed to the n-th call
LedgerTrades(n) ==
    { LiveTrade(n, "ETHUSDT",
                [in_position |-> TRUE, entry_price |-> Some(50), position_size |-> 20],
                p, "take_profit") : p \in {100, 125} }

\* calls started so far
Started == Len(appended) + Cardinality({w \in Writers : wr[w].pc # "idle"})

\* mutant of FlushRows: the file is rewritten, not appended to
FlushRowsTruncate(file, file_exists, trade) ==
    [exists |-> TRUE, rows |-> <<HeaderRow, trade>>]

\* leaving `with open(path, mode="a", newline="") as f`: the header (when
\* the file did not exist at the os.path.exists test) and the row, written
\* through the csv writer into f's buffer, reach the end of the file
FlushRows(file, file_exists, trade) ==
    [exists |-> TRUE,
     rows |-> file.rows \o (IF ~file_exists THEN <<HeaderRow>> ELSE <<>>) \o <<trade>>]

CsvInit ==
    /\ csv_file = MissingCsv
    /\ wr = [w \in Writers |-> IdleWriter]
    /\ appended = <<>>

CsvIdle ==
    /\ csv_file = MissingCsv
    /\ wr = [w \in Writers |-> IdleWriter]
    /\ appended = <<>>

\* writer w calls append_trade_to_csv(trade)
AppendTradeCall(w, trade) ==
    /\ wr[w].pc = "idle"
    /\ Started < MaxAppends
    /\ wr' = [wr EXCEPT ![w] = [pc |-> "exists", trade |-> trade, file_exists |-> FALSE]]
    /\ UNCHANGED <<csv_file, appended>>
    /\ UNCHANGED <<btVars, envVars, ordVars, cfgVars, liveVars, sigVars, replayVars>>

\* file_exists = os.path.exists(path)
PathExists(w) ==
    /\ wr[w].pc = "exists"
    /\ wr' = [wr EXCEPT ![w].pc = "open", ![w].file_exists = csv_file.exists]
    /\ UNCHANGED <<csv_file, appended>>
    /\ UNCHANGED <<btVars, envVars, ordVars, cfgVars, liveVars, sigVars, replayVars>>

\* open(path, mode="a"): the file is created when it is not there
OpenAppend(w) ==
    /\ wr[w].pc = "open"
    /\ csv_file' = [csv_file EXCEPT !.exists = TRUE]
    /\ wr' = [wr EXCEPT ![w].pc = "write"]
    /\ UNCHANGED appended
    /\ UNCHANGED <<btVars, envVars, ordVars, cfgVars, liveVars, sigVars, replayVars>>

\* writeheader (if not file_exists), writerow, and the end of the `with`
\* block, which flushes and closes; the call returns
WriteAndClose(w) ==
    /\ wr[w].pc = "write"
    /\ csv_file' = FlushRows(csv_file, wr[w].file_exists, wr[w].trade)
    /\ appended' = Append(appended, [writer |-> w, trade |-> wr[w].trade])
    /\ wr' = [wr EXCEPT ![w] = IdleWriter]
    /\ UNCHANGED <<btVars, envVars, ordVars, cfgVars, liveVars, sigVars, replayVars>>

CsvNext ==
    \E w \in Writers :
        \/ \E trade \in LedgerTrades(Started + 1) : AppendTradeCall(w, trade)
        \/ PathExists(w)
        \/ OpenAppend(w)
        \/ WriteAndClose(w)

-----------------------------------------------------------------------------
(* strategy.py: generate_signals over the caller's bar table, and the entry
   of run_backtest on that table *)

\* number of rows of the caller's table
MaxRows == 2

BaseColumns == {"close", "high", "low"}

\* the indicator columns the caller added before generate_signals
IndicatorSets == SUBSET {"RSI", "SMA_10", "SMA_20"}

CloseValues == {Some(100), Some(110)}

RsiValuesOfBar == {NaN, Some(20), Some(90)}

SmaFastValues == {Some(90), Some(110)}

SmaSlowValues == {NaN, Some(100)}

\* a row over the columns cols; high = low = close
RowOf(cols, close, rsi, fast, slow) ==
    [c \in cols |->
        IF c \in BaseColumns THEN close
        ELSE IF c = "RSI" THEN rsi
        ELSE IF c = "SMA_10" THEN fast
        ELSE slow]

TableRows(cols) ==
    { RowOf(cols, close, rsi, fast, slow) :
        close \in CloseValues, rsi \in RsiValuesOfBar,
        fast \in SmaFastValues, slow \in SmaSlowValues }

\* the strategy argument; "macd" is not a strategy of the dispatcher
Strategies == {"sma_crossover", "rsi_reversal", "rsi_trend", "rsi_v1", "macd"}

\* **params: the defaults, or other moving-average windows
DefaultParams == [fast |-> 10, slow |-> 20, trend_ma |-> 20]

ParamSets == {DefaultParams, [fast |-> 20, slow |-> 50, trend_ma |-> 10]}

\* f"SMA_{n}"
SmaCol(n) ==
    IF n = 10 THEN "SMA_10" ELSE IF n = 20 THEN "SMA_20" ELSE "SMA_50"

\* comparisons of column values: False when either side is NaN
Lt(a, b) == a # NaN /\ b # NaN /\ Val(a) < Val(b)

Le(a, b) == a # NaN /\ b # NaN /\ Val(a) <= Val(b)

\* mutant of shift: the value of the next row
shift_lookahead(rows, col, i) ==
    IF i = Len(rows) THEN NaN ELSE rows[i + 1][col]

\* df[col].shift(1) at row i
shift(rows, col, i) ==
    IF i = 1 THEN NaN ELSE rows[i - 1][col]

\* df["signal"] = 0, then 1 where buy_condition, then -1 where
\* sell_condition
SignalValue(buy_condition, sell_condition) ==
    IF sell_condition THEN -1 ELSE IF buy_condition THEN 1 ELSE 0

\* the copy of d with the 'signal' column set to sigs
WithSignal(d, sigs) ==
    [columns |-> d.columns \cup {"signal"},
     rows |-> [i \in 1..Len(d.rows) |->
                 [c \in d.columns \cup {"signal"} |->
                    IF c = "signal" THEN Some(sigs[i]) ELSE d.rows[i][c]]]]

sma_crossover_signals(d, fast, slow) ==
    LET fast_col == SmaCol(fast)
        slow_col == SmaCol(slow)
    IN  IF fast_col \notin d.columns \/ slow_col \notin d.columns
        THEN Raise("ValueError: Missing SMA indicators")
        ELSE Ok(WithSignal(d,
                [i \in 1..Len(d.rows) |->
                    LET prev_fast == shift(d.rows, fast_col, i)
                        prev_slow == shift(d.rows, slow_col, i)
                        f == d.rows[i][fast_col]
                        sl == d.rows[i][slow_col]
                    IN  SignalValue(Le(prev_fast, prev_slow) /\ Lt(sl, f),
                                    Le(prev_slow, prev_fast) /\ Lt(f, sl))]))

rsi_reversal_signals(d, lower, upper) ==
    IF "RSI" \notin d.columns
    THEN Raise("ValueError: Missing RSI indicator")
    ELSE Ok(WithSignal(d,
            [i \in 1..Len(d.rows) |->
                SignalValue(Lt(d.rows[i]["RSI"], Some(lower)),
                            Lt(Some(upper), d.rows[i]["RSI"]))]))

rsi_v1_signals(d, entry_rsi, exit_rsi) ==
    IF "RSI" \notin d.columns
    THEN Raise("ValueError: Missing RSI indicator")
    ELSE Ok(WithSignal(d,
            [i \in 1..Len(d.rows) |->
                SignalValue(Lt(d.rows[i]["RSI"], Some(entry_rsi)),
                            Lt(Some(exit_rsi), d.rows[i]["RSI"]))]))

rsi_trend_signals(d, lower, upper, trend_ma) ==
    LET trend_col == SmaCol(trend_ma)
    IN  IF "RSI" \notin d.columns \/ trend_col \notin d.columns
        THEN Raise("ValueError: Missing RSI or trend SMA")
        ELSE Ok(WithSignal(d,
                [i \in 1..Len(d.rows) |->
                    LET uptrend == Lt(d.rows[i][trend_col], d.rows[i]["close"])
                    IN  SignalValue(Lt(d.rows[i]["RSI"], Some(lower)) /\ uptrend,
                                    Lt(Some(upper), d.rows[i]["RSI"]) \/ ~uptrend)]))

\* mutant of generate_signals: an unknown name runs the default strategy
generate_signals_fallback(d, strategy, params) ==
    IF strategy = "rsi_reversal" THEN rsi_reversal_signals(d, 30, 70)
    ELSE IF strategy = "rsi_trend"
    THEN rsi_trend_signals(d, 30, 60, params.trend_ma)
    ELSE IF strategy = "rsi_v1" THEN rsi_v1_signals(d, 25, 80)
    ELSE sma_crossover_signals(d, params.fast, params.slow)

\* the dispatcher
generate_signals(d, strategy, params) ==
    IF strategy = "sma_crossover"
    THEN sma_crossover_signals(d, params.fast, params.slow)
    ELSE IF strategy = "rsi_reversal" THEN rsi_reversal_signals(d, 30, 70)
    ELSE IF strategy = "rsi_trend"
    THEN rsi_trend_signals(d, 30, 60, params.trend_ma)
    ELSE IF strategy = "rsi_v1" THEN rsi_v1_signals(d, 25, 80)
    ELSE Raise("ValueError: Unknown strategy")

\* the last call made on df, and the exception it raised ("" for none)
CallOf(fn, strategy, params, exc) ==
    [fn |-> fn, strategy |-> strategy, params |-> params, exc |-> exc]

NoResult == CallOf("none", "", DefaultParams, "")

SigInit ==
    /\ df \in { [columns |-> BaseColumns \cup ind, rows |-> <<>>] :
                    ind \in IndicatorSets }
    /\ sig_result = NoResult

\* no table
SigIdle ==
    /\ df = [columns |-> {}, rows |-> <<>>]
    /\ sig_result = NoResult

\* the caller's table gets its next bar, before any call is made on it
AppendBar(r) ==
    /\ sig_result = NoResult
    /\ Len(df.rows) < MaxRows
    /\ df' = [df EXCEPT !.rows = Append(df.rows, r)]
    /\ UNCHANGED sig_result
    /\ UNCHANGED <<btVars, envVars, ordVars, cfgVars, liveVars, csvVars, replayVars>>

\* df = generate_signals(df, strategy, **params), the first call on df
GenerateSignals(strategy, params) ==
    /\ Len(df.rows) >= 1
    /\ sig_result = NoResult
    /\ LET out == generate_signals(df, strategy, params)
       IN  /\ df' = IF out.ok THEN out.val ELSE df
           /\ sig_result' = CallOf("generate_signals", strategy, params, out.exc)
    /\ UNCHANGED <<btVars, envVars, ordVars, cfgVars, liveVars, csvVars, replayVars>>

\* run_backtest(df) up to its loop: the 'signal' column test, then the
\* initial values of the locals
RunBacktestCall ==
    /\ Len(df.rows) >= 1
    /\ sig_result.exc = ""
    /\ sig_result.fn # "run_backtest"
    /\ sig_result' =
         CallOf("run_backtest", "", DefaultParams,
                IF "signal" \notin df.columns
                THEN "ValueError: DataFrame must have 'signal' column" ELSE "")
    /\ UNCHANGED df
    /\ UNCHANGED <<btVars, envVars, ordVars, cfgVars, liveVars, csvVars, replayVars>>

\* row["close"], row["high"], row["low"], row["signal"]
BarOf(r) ==
    [close |-> Val(r["close"]), high |-> Val(r["high"]),
     low |-> Val(r["low"]), signal |-> Val(r["signal"])]

\* one iteration of run_backtest's loop over the rows of df
RunBacktestRow ==
    /\ sig_result.fn = "run_backtest"
    /\ sig_result.exc = ""
    /\ timestamp < Len(df.rows)
    /\ ProcessRow(BarOf(df.rows[timestamp + 1]))
    /\ UNCHANGED sigVars
    /\ UNCHANGED <<envVars, ordVars, cfgVars, liveVars, csvVars, replayVars>>

SigNext ==
    \/ \E r \in TableRows(df.columns) : AppendBar(r)
    \/ \E strategy \in Strategies, params \in ParamSets :
            GenerateSignals(strategy, params)
    \/ RunBacktestCall
    \/ RunBacktestRow

-----------------------------------------------------------------------------
(* run_backtest called twice with the same arguments *)

\* rows of the DataFrames made of any bars
MaxTableLen == 2

\* a five-bar table: closes 100, 90, 95, 130, 120 in hundredths, every bar
\* with high = low = close, a buy signal on the first bar and none later
ScenarioCloses == <<10000, 9000, 9500, 13000, 12000>>

\* the 'signal' column after the first bar: hold or exit
ScenarioSignals == {-1, 0}

ScenarioTables ==
    { [i \in 1..Len(ScenarioCloses) |->
         [close |-> ScenarioCloses[i], high |-> ScenarioCloses[i],
          low |-> ScenarioCloses[i],
          signal |-> IF i = 1 THEN 1 ELSE sigs[i]]] :
      sigs \in [2..Len(ScenarioCloses) -> ScenarioSignals] }

\* stop_loss_pct / take_profit_pct on the five-bar tables, in percent
ScenarioPcts == {None, Some(5), Some(10)}

GeneralTables == UNION { [1..n -> Bars] : n \in 1..MaxTableLen }

\* what run_backtest returns: trades, equity_curve, final_equity
ReturnValue ==
    [trades |-> trades,
     equity_curve |-> equity_curve,
     final_equity |-> equity_curve[Len(equity_curve)].equity]

\* mutant of InitialLocals: the trades list survives from call to call
InitialLocalsKeepTrades(prev) ==
    [balance_usdt |-> RInt(initial_balance), position_size |-> RInt(0),
     position_state |-> "CASH", entry_price |-> None, entry_time |-> None,
     trades |-> prev.trades]

\* the locals a call starts from, whatever the previous call left (prev)
InitialLocals(prev) ==
    [balance_usdt |-> RInt(initial_balance), position_size |-> RInt(0),
     position_state |-> "CASH", entry_price |-> None, entry_time |-> None,
     trades |-> <<>>]

ReplayInit ==
    /\ df_rows \in ScenarioTables \cup GeneralTables
    /\ stop_loss_pct \in (IF df_rows \in ScenarioTables THEN ScenarioPcts ELSE PctArgs)
    /\ take_profit_pct \in (IF df_rows \in ScenarioTables THEN ScenarioPcts ELSE PctArgs)
    /\ run_no = 1
    /\ first_run = None
    /\ balance_usdt = RInt(initial_balance)
    /\ position_size = RInt(0)
    /\ position_state = "CASH"
    /\ equity_curve = <<>>
    /\ trades = <<>>
    /\ entry_price = None
    /\ entry_time = None
    /\ timestamp = 0
    /\ row = NoRow

\* run_backtest not called on a table given up front
ReplayIdle ==
    /\ run_no = 1
    /\ df_rows = <<>>
    /\ first_run = None

\* one iteration of the loop over the rows of df, in either call
ReplayRow ==
    /\ timestamp < Len(df_rows)
    /\ ProcessRow(df_rows[timestamp + 1])
    /\ UNCHANGED replayVars
    /\ UNCHANGED <<envVars, ordVars, cfgVars, liveVars, csvVars, sigVars>>

\* the first call returns and the second call starts on the same arguments
SecondCall ==
    /\ run_no = 1
    /\ timestamp = Len(df_rows)
    /\ first_run' = Some(ReturnValue)
    /\ run_no' = 2
    /\ LET L == InitialLocals(Locals)
       IN  /\ balance_usdt' = L.balance_usdt
           /\ position_size' = L.position_size
           /\ position_state' = L.position_state
           /\ entry_price' = L.entry_price
           /\ entry_time' = L.entry_time
           /\ trades' = L.trades
    /\ equity_curve' = <<>>
    /\ timestamp' = 0
    /\ row' = NoRow
    /\ UNCHANGED <<stop_loss_pct, take_profit_pct, df_rows>>
    /\ UNCHANGED <<envVars, ordVars, cfgVars, liveVars, csvVars, sigVars>>

ReplayNext ==
    \/ ReplayRow
    \/ SecondCall

-----------------------------------------------------------------------------
(* Specifications *)

\* the environment when run_backtest runs: it does not read it
EnvIdle ==
    /\ TRADING_ENV = "testnet"
    /\ LIVE_TRADING_CONFIRMATION = ""
    /\ api_keys = {}

InitBacktest == BtInit /\ EnvIdle /\ OrdIdle /\ CfgIdle /\ LiveIdle /\ CsvIdle /\ SigIdle /\ ReplayIdle

\* run_backtest over every sequence of at most MaxBars rows
SpecBacktest == InitBacktest /\ [][BtNext]_vars

InitOrder == EnvInit /\ BtIdle /\ OrdIdle /\ CfgIdle /\ LiveIdle /\ CsvIdle /\ SigIdle /\ ReplayIdle

\* one call of place_market_order in every environment
SpecOrder == InitOrder /\ [][OrdNext]_vars

InitConfig == CfgInit /\ BtIdle /\ EnvIdle /\ OrdIdle /\ LiveIdle /\ CsvIdle /\ SigIdle /\ ReplayIdle

\* two dashboard threads, each making one call into runtime_state
SpecConfig == InitConfig /\ [][CfgNext]_vars

InitLive ==
    /\ LiveInit /\ LiveEnvInit /\ BtIdle /\ OrdIdle /\ CsvIdle /\ SigIdle /\ ReplayIdle
    /\ state_file \in InitialFiles /\ lock = None /\ th = [t \in Threads |-> IdleThread]
    /\ default_state = DEFAULT_STATE

\* the live daemon (main_live.py) or live_loop_rsi_v1, with the dashboard's
\* Start / Stop buttons rewriting the runtime configuration meanwhile
SpecLive == InitLive /\ [][LiveNext]_vars

\* the live programs not started: run_backtest is what runs
LiveOff ==
    /\ program = "run_backtest"
    /\ daemon_pc = "off"
    /\ args = DaemonArgs
    /\ state = None
    /\ ledger = <<>>
    /\ completed_trades = <<>>
    /\ cycle_exc = ""
    /\ cycles = 0
    /\ latest = NoLatest

\* run_backtest's loop, when run_backtest is the program started
RunBacktestBar(bar) ==
    /\ program = "run_backtest"
    /\ BacktestBar(bar)

\* one of the three engines is started: run_backtest on a DataFrame, the
\* daemon main(), or live_loop_rsi_v1
InitEngines ==
    /\ OrdIdle /\ CfgIdle /\ CsvIdle /\ SigIdle /\ ReplayIdle
    /\ \/ BtInit /\ EnvIdle /\ LiveOff
       \/ BtIdle /\ LiveEnvInit /\ LiveInit

EnginesNext ==
    \/ \E bar \in Bars : RunBacktestBar(bar)
    \/ MainLiveStart
    \/ LiveLoopStart
    \/ \E fetch \in Fetches, info \in LiveInfos, outcome \in ExchangeOutcomes,
          ledger_ok \in BOOLEAN :
            MainLiveCycle(fetch, info, outcome, ledger_ok)
    \/ \E fetch \in Fetches, info \in LiveInfos, outcome \in ExchangeOutcomes :
            LiveLoopCycle(fetch, info, outcome)

\* the position engines, the configuration document left alone
SpecEngines == InitEngines /\ [][EnginesNext]_vars

InitCalls ==
    /\ BtIdle /\ OrdIdle /\ CfgIdle /\ CsvIdle /\ SigIdle /\ ReplayIdle
    /\ EnvInit
    /\ CallInit

CallsNext ==
    \/ \E fetch \in Fetches, info \in LiveInfos, outcome \in ExchangeOutcomes,
          ledger_ok \in BOOLEAN :
            LiveStepCall(fetch, info, outcome, ledger_ok)
    \/ LiveLoopStart
    \/ \E fetch \in Fetches, info \in LiveInfos, outcome \in ExchangeOutcomes :
            LiveLoopCycle(fetch, info, outcome)

\* live_step_rsi_v1 and live_loop_rsi_v1 called directly, in any environment
SpecCalls == InitCalls /\ [][CallsNext]_vars

InitLoops == LiveInit /\ LiveEnvInit /\ BtIdle /\ OrdIdle /\ CfgIdle /\ CsvIdle /\ SigIdle /\ ReplayIdle

LoopsNext ==
    \/ MainLiveStart
    \/ LiveLoopStart
    \/ \E fetch \in Fetches, info \in LiveInfos, outcome \in ExchangeOutcomes,
          ledger_ok \in BOOLEAN :
            MainLiveCycle(fetch, info, outcome, ledger_ok)
    \/ \E fetch \in Fetches, info \in LiveInfos, outcome \in ExchangeOutcomes :
            LiveLoopCycle(fetch, info, outcome)

\* the daemon main() or live_loop_rsi_v1, each `while True` going on to its
\* next iteration after the sleep
SpecLoopsFair ==
    /\ InitLoops
    /\ [][LoopsNext]_vars
    /\ WF_vars(\E fetch \in Fetches, info \in LiveInfos, outcome \in ExchangeOutcomes,
                  ledger_ok \in BOOLEAN :
                    MainLiveCycle(fetch, info, outcome, ledger_ok))
    /\ WF_vars(\E fetch \in Fetches, info \in LiveInfos, outcome \in ExchangeOutcomes :
                    LiveLoopCycle(fetch, info, outcome))

InitLedger ==
    /\ CsvInit /\ BtIdle /\ EnvIdle /\ OrdIdle /\ CfgIdle /\ LiveIdle
    /\ SigIdle /\ ReplayIdle

\* append_trade_to_csv called by one or two writers, from a missing file
SpecLedger == InitLedger /\ [][CsvNext]_vars

InitSignals ==
    /\ SigInit /\ BtIdle /\ EnvIdle /\ OrdIdle /\ CfgIdle /\ LiveIdle /\ CsvIdle
    /\ ReplayIdle

\* a caller builds a bar table, calls generate_signals and run_backtest on it
SpecSignals == InitSignals /\ [][SigNext]_vars

InitReplay ==
    /\ ReplayInit /\ EnvIdle /\ OrdIdle /\ CfgIdle /\ LiveIdle /\ CsvIdle
    /\ SigIdle

\* run_backtest called twice on the same DataFrame and arguments
SpecReplay == InitReplay /\ [][ReplayNext]_vars

-----------------------------------------------------------------------------
(* Claims about run_backtest, checked under SpecBacktest *)

LastTrade == trades[Len(trades)]

\* C1: a row processed while LONG, with both stop_loss_pct and
\* take_profit_pct set, whose low is at or below the stop-loss level and
\* whose high is at or above the take-profit level, records exactly one
\* trade, with exit_reason "stop_loss" and exit_price the stop-loss level.
C1_StopLossPrecedence ==
    [][ ( /\ position_state = "LONG"
          /\ stop_loss_pct # None
          /\ take_profit_pct # None
          /\ timestamp' = timestamp + 1
          /\ row'.low <= Level(Val(entry_price), 100 - Val(stop_loss_pct))
          /\ row'.high >= Level(Val(entry_price), 100 + Val(take_profit_pct)) )
        => ( /\ Len(trades') = Len(trades) + 1
             /\ SubSeq(trades', 1, Len(trades)) = trades
             /\ trades'[Len(trades')].exit_time = timestamp'
             /\ trades'[Len(trades')].exit_reason = "stop_loss"
             /\ trades'[Len(trades')].exit_price
                  = Level(Val(entry_price), 100 - Val(stop_loss_pct))
             /\ trades'[Len(trades')].exit_price
                  # Level(Val(entry_price), 100 + Val(take_profit_pct)) ) ]_vars

\* C1 witness: the row just processed closed a position and breached both
\* the stop-loss and the take-profit level of that position.
C1_Witness ==
    /\ stop_loss_pct # None
    /\ take_profit_pct # None
    /\ trades # <<>>
    /\ LastTrade.exit_time = timestamp
    /\ row.low <= Level(LastTrade.entry_price, 100 - Val(stop_loss_pct))
    /\ row.high >= Level(LastTrade.entry_price, 100 + Val(take_profit_pct))
    /\ LastTrade.exit_reason = "stop_loss"

\* C2: a row that emitted a trade (an exit) leaves the position FLAT,
\* whatever the row's signal is.
C2_ExitBarStaysFlat ==
    [][ Len(trades') = Len(trades) + 1 => position_state' = "CASH" ]_vars

-----------------------------------------------------------------------------
(* Claims about place_market_order, checked under SpecOrder *)

\* the configuration errors place_market_order raises before any submission
ConfigurationErrors ==
    {"RuntimeError: live trading is BLOCKED", "RuntimeError: unknown TRADING_ENV"}

\* C5: a call made with a non-testnet TRADING_ENV and a confirmation that
\* is not exactly the sentinel submits no order to any client and ends with
\* a raised configuration error, not with a normal "no order" return.
C5_LiveGateFailsClosed ==
    ( /\ call # NoCall
      /\ TRADING_ENV # "testnet"
      /\ LIVE_TRADING_CONFIRMATION # "YES_I_UNDERSTAND_THE_RISK" )
    => ( /\ submitted = <<>>
         /\ call.ret = "raise"
         /\ call.exc \in ConfigurationErrors )

\* C5 witness: a live environment with its keys present, a confirmation
\* that differs from the sentinel only in case, and a quantity the venue
\* would accept: the call was blocked by the gate.
C5_Witness ==
    /\ call # NoCall
    /\ TRADING_ENV = "live"
    /\ "live" \in api_keys
    /\ LIVE_TRADING_CONFIRMATION = "yes_i_understand_the_risk"
    /\ call.info.kind = "lot"
    /\ call.info.stepSize = 1
    /\ call.quantity >= call.info.minQty
    /\ call.ret = "raise"
    /\ call.exc = "RuntimeError: live trading is BLOCKED"

\* C6: a call whose desired quantity is strictly below the venue's minQty
\* (and that gets as far as the normalization) has normalized quantity 0
\* and sends no order.
C6_BelowMinQtySkipped ==
    ( /\ call # NoCall
      /\ call.info.kind = "lot"
      /\ call.quantity < call.info.minQty
      /\ call.qty # None )
    => ( /\ call.qty = Some(0)
         /\ submitted = <<>> )

\* C7: whenever the normalized quantity is <= 0, client.order_market is
\* not called and the call returns None without raising.
C7_NonPositiveQtyIsNoOp ==
    ( /\ call # NoCall
      /\ call.qty # None
      /\ Val(call.qty) <= 0 )
    => ( /\ submitted = <<>>
         /\ call.ret = "None"
         /\ call.exc = "" )

\* C7 witness: a positive desired quantity that the LOT_SIZE normalization
\* turned into 0, and the call returned None.
C7_Witness ==
    /\ call # NoCall
    /\ call.info.kind = "lot"
    /\ call.quantity > 0
    /\ call.qty = Some(0)
    /\ call.ret = "None"
    /\ submitted = <<>>

-----------------------------------------------------------------------------
(* Claims about the live loops, checked under SpecLive *)

\* the position a loop's `state` stands for
Position(s) == IF s = None THEN FlatState ELSE Val(s)

\* C3: in a cycle whose SELL returned no order (failed or skipped), the
\* position stays LONG with entry_price and position_size unchanged and no
\* trade is recorded, in live_step_rsi_v1 and in live_loop_rsi_v1.
C3_FailedSellStaysLong ==
    [][ ( /\ cycles' = cycles + 1
          /\ call'.side = "SELL"
          /\ call'.ret = "None" )
        => ( /\ Position(state').in_position
             /\ Position(state') = Position(state)
             /\ ledger' = ledger ) ]_vars

\* C4: after a cycle whose BUY returned no order (failed or skipped) the
\* position is FLAT: in_position false, entry_price unset, position_size 0.
C4_FailedBuyStaysFlat ==
    ( /\ cycles > 0
      /\ call.side = "BUY"
      /\ call.ret = "None" )
    => ( /\ state # None
         /\ ~Val(state).in_position
         /\ Val(state).entry_price = None
         /\ Val(state).position_size = 0 )

\* C4 witness: the daemon submitted a BUY that the exchange rejected, and
\* the position is flat.
C4_Witness ==
    /\ program = "main_live"
    /\ cycles > 0
    /\ call.side = "BUY"
    /\ call.ret = "None"
    /\ submitted # <<>>
    /\ state = Some(FlatState)

\* C8: a daemon cycle that starts while the runtime configuration document
\* says bot_enabled = false submits no order and changes no position.
C8_DisabledBotDoesNothing ==
    [][ ( /\ program = "main_live"
          /\ cycles' = cycles + 1
          /\ state_file.kind = "json"
          /\ ~load_state(state_file).bot_enabled )
        => ( /\ submitted' = <<>>
             /\ Position(state') = Position(state) ) ]_vars

\* C9: a daemon cycle runs with the symbol, interval, history_candles,
\* position size, RSI thresholds and take_profit_pct the runtime
\* configuration document holds when the cycle starts.
C9_CycleUsesDocument ==
    [][ ( /\ program = "main_live"
          /\ cycles' = cycles + 1 )
        => ( /\ \A f \in DOMAIN args : args[f] = load_state(state_file)[f]
             /\ call' # NoCall => call'.symbol = load_state(state_file).symbol ) ]_vars

-----------------------------------------------------------------------------
(* Claims about the loops' failure handling, checked under SpecLive,       *)
(* SpecLiveFair and SpecOrder                                              *)

\* C11: a cycle that ended with an exception is followed by the next
\* cycle: the exception is caught in the loop, which goes on after the
\* sleep, in main() and in live_loop_rsi_v1.
C11_LoopSurvivesFailure ==
    \A n \in 1..(MaxCycles - 1) :
        (cycles = n /\ cycle_exc # "") ~> (cycles = n + 1)

\* C11 witness: the daemon has run a second cycle although every cycle so
\* far raised (its `state` was never assigned), and it is still in its loop.
C11_Witness ==
    /\ program = "main_live"
    /\ cycles >= 2
    /\ state = None
    /\ cycle_exc # ""
    /\ daemon_pc = "loop"

\* C12: a cycle whose bar retrieval failed submits no order, appends
\* nothing to the ledger and leaves the loop's position state as it was.
C12_FetchFailureSkipsCycle ==
    [][ ( /\ cycles' = cycles + 1
          /\ cycle_exc' = "Exception: get_klines" )
        => ( /\ submitted' = <<>>
             /\ call' = NoCall
             /\ ledger' = ledger
             /\ state' = state ) ]_vars

\* C12 witness: the bar retrieval failed in a cycle that started LONG, and
\* the position is still LONG.
C12_Witness ==
    /\ cycles >= 2
    /\ cycle_exc = "Exception: get_klines"
    /\ state # None
    /\ Val(state).in_position
    /\ Val(state).entry_price # None
    /\ submitted = <<>>

\* C13: one call of place_market_order calls client.order_market at most
\* once; when the exchange rejects the order or the transport fails, the
\* call returns None after that single submission.
C13_SubmitsAtMostOnce ==
    call # NoCall
    => ( /\ Len(submitted) <= 1
         /\ (submitted # <<>> /\ call.ret # "order")
                => (call.ret = "None" /\ call.exc = "") )

\* C13 witness: the order was submitted once, the exchange failed it and
\* the call returned None.
C13_Witness ==
    /\ call # NoCall
    /\ Len(submitted) = 1
    /\ call.ret = "None"
    /\ Val(call.qty) > 0

\* C14: a live step submits at most one order; a step that started LONG
\* sends no BUY and, when it closes the position, ends FLAT; a BUY is sent
\* only by a step that started FLAT.
C14_OneOrderPerStep ==
    [][ cycles' = cycles + 1
        => ( /\ Len(submitted') <= 1
             /\ Position(state).in_position
                    => ( /\ call'.side # "BUY"
                         /\ \A i \in 1..Len(submitted') : submitted'[i].side = "SELL"
                         /\ ~Position(state').in_position
                                => Position(state') = FlatState )
             /\ call'.side = "BUY" => ~Position(state).in_position ) ]_vars

\* C14 witness: a step of the daemon closed the position by take-profit on
\* a candle whose RSI also gave the entry signal, sent the one SELL and
\* ended FLAT.
C14_Witness ==
    /\ program = "main_live"
    /\ latest.ok
    /\ rsi_v1_signal(latest.RSI, args.entry_rsi, args.exit_rsi) = 1
    /\ completed_trades # <<>>
    /\ completed_trades[1].time = cycles
    /\ call.side = "SELL"
    /\ Len(submitted) = 1
    /\ state = Some(FlatState)

-----------------------------------------------------------------------------
(* Claims about runtime_state, checked under SpecConfig *)

\* C10: when both threads have returned, the saved document reflects both
\* updates: it is what the two calls give when run one after the other, in
\* one of the two orders.
C10_NoLostUpdate ==
    (\A t \in Threads : th[t].pc = "done")
    => LET final == load_state(state_file)
       IN  \/ final = Modify(Modify(final, th[1].op), th[2].op)
           \/ final = Modify(Modify(final, th[2].op), th[1].op)

-----------------------------------------------------------------------------
(* Claims about the trade ledger, checked under SpecLedger *)

\* the trades of the calls that returned, in the order they returned
AppendedTrades == [i \in 1..Len(appended) |-> appended[i].trade]

\* only writer 1 has called append_trade_to_csv so far
SingleWriter ==
    /\ wr[2].pc = "idle"
    /\ \A i \in 1..Len(appended) : appended[i].writer = 1

\* C15: with a single writer and a file that was missing at first, after
\* any number of calls the file is one header row followed by the appended
\* trades in call order; rows written earlier are never changed or removed.
C15_AppendOnlyLedger ==
    SingleWriter
    => csv_file.rows = IF appended = <<>> THEN <<>>
                       ELSE <<HeaderRow>> \o AppendedTrades

\* C15 witness: the single writer has appended MaxAppends trades; the
\* file begins with the header and holds the trades in call order.
C15_Witness ==
    /\ SingleWriter
    /\ Len(appended) = MaxAppends
    /\ csv_file.rows[1] = HeaderRow
    /\ \A i \in 1..MaxAppends : csv_file.rows[i + 1].time = i

\* C16: when two concurrent calls on a missing file have both returned,
\* the file has exactly one header row, which is its first row, followed
\* by both trade rows.
C16_ConcurrentAppendsSerialized ==
    ( /\ \A w \in Writers : wr[w].pc = "idle"
      /\ appended # <<>> )
    => ( /\ csv_file.rows[1] = HeaderRow
         /\ Cardinality({i \in 1..Len(csv_file.rows) : csv_file.rows[i] = HeaderRow}) = 1
         /\ Len(csv_file.rows) = 1 + Len(appended)
         /\ \A i \in 1..Len(appended) :
                \E j \in 2..Len(csv_file.rows) : csv_file.rows[j] = appended[i].trade )

-----------------------------------------------------------------------------
(* Claims about both position engines, checked under SpecEngines *)

\* C17: in a step that starts LONG, whose signal is EXIT (-1) and in which
\* a risk exit condition holds (take-profit or stop-loss in run_backtest,
\* take-profit in live_step_rsi_v1), one exit is made and its exit_reason
\* is the risk reason, never "signal".
C17_RiskExitBeforeSignalExit ==
    [][ /\ ( /\ program = "run_backtest"
             /\ timestamp' = timestamp + 1
             /\ position_state = "LONG"
             /\ row'.signal = -1
             /\ \/ /\ take_profit_pct # None
                   /\ row'.high >= Level(Val(entry_price), 100 + Val(take_profit_pct))
                \/ /\ stop_loss_pct # None
                   /\ row'.low <= Level(Val(entry_price), 100 - Val(stop_loss_pct)) )
           => ( /\ Len(trades') = Len(trades) + 1
                /\ trades'[Len(trades')].exit_time = timestamp'
                /\ trades'[Len(trades')].exit_reason \in {"take_profit", "stop_loss"}
                /\ position_state' = "CASH" )
        /\ ( /\ program = "main_live"
             /\ cycles' = cycles + 1
             /\ Position(state).in_position
             /\ latest'.ok
             /\ latest'.close * 100
                    >= Val(Position(state).entry_price) * (100 + args.take_profit_pct)
             /\ rsi_v1_signal(latest'.RSI, args.entry_rsi, args.exit_rsi) = -1 )
           => ( /\ call'.side = "SELL"
                /\ Len(submitted') <= 1
                /\ (call'.ret = "order" /\ cycle_exc' = "")
                        => ( /\ Len(completed_trades') = 1
                             /\ ledger'[Len(ledger')] = completed_trades'[1]
                             /\ ~Position(state').in_position )
                /\ \A i \in 1..Len(completed_trades') :
                        completed_trades'[i].exit_reason = "take_profit"
                /\ Len(ledger') > Len(ledger)
                        => ledger'[Len(ledger')].exit_reason = "take_profit" ) ]_vars

\* C17 witness: the daemon's step met a candle at or above the take-profit
\* level whose RSI gave the exit signal, and recorded one take_profit trade.
C17_Witness ==
    /\ program = "main_live"
    /\ latest.ok
    /\ rsi_v1_signal(latest.RSI, args.entry_rsi, args.exit_rsi) = -1
    /\ Len(completed_trades) = 1
    /\ completed_trades[1].time = cycles
    /\ completed_trades[1].exit_price = latest.close
    /\ latest.close * 100 >= completed_trades[1].entry_price * (100 + args.take_profit_pct)
    /\ completed_trades[1].exit_reason = "take_profit"

\* C18: after every bar of run_backtest and after every live step,
\* entry_price is set and the position size is non-zero exactly when the
\* state is LONG; in run_backtest the cash balance is 0 when LONG and the
\* position size is 0 when FLAT.
C18_PositionInvariant ==
    /\ (position_state = "LONG") <=> (entry_price # None)
    /\ (position_state = "LONG") <=> (entry_time # None)
    /\ (position_state = "LONG") <=> (position_size # RInt(0))
    /\ position_state = "LONG" => balance_usdt = RInt(0)
    /\ position_state = "CASH" => position_size = RInt(0)
    /\ Position(state).in_position <=> (Position(state).entry_price # None)
    /\ Position(state).in_position <=> (Position(state).position_size # 0)

\* C18 witness: run_backtest is LONG again after having closed a position.
C18_Witness ==
    /\ program = "run_backtest"
    /\ trades # <<>>
    /\ position_state = "LONG"
    /\ entry_price # None
    /\ position_size # RInt(0)

-----------------------------------------------------------------------------
(* Further claims about run_backtest, checked under SpecBacktest *)

\* C19: every recorded trade has entry_time < exit_time, consecutive
\* trades do not overlap (the exit_time of one is not later than the
\* entry_time of the next), and an open position was entered no earlier
\* than the last exit.
C19_OnePositionAtATime ==
    /\ \A k \in 1..Len(trades) :
        /\ trades[k].entry_time < trades[k].exit_time
        /\ k < Len(trades) => trades[k].exit_time <= trades[k + 1].entry_time
    /\ (trades # <<>> /\ entry_time # None) => LastTrade.exit_time <= Val(entry_time)

\* C19 witness: two trades, the second entered on the row that closed the
\* first.
C19_Witness ==
    /\ Len(trades) = 2
    /\ trades[1].exit_time = trades[2].entry_time
    /\ trades[2].entry_time < trades[2].exit_time

\* C20: a row at which the position is FLAT before and after records the
\* equity of the previous row, or initial_balance when it is the first row.
C20_FlatEquityConstant ==
    [][ ( /\ timestamp' = timestamp + 1
          /\ position_state = "CASH"
          /\ position_state' = "CASH" )
        => ( /\ Len(equity_curve') = timestamp'
             /\ equity_curve'[timestamp'].equity
                  = IF timestamp = 0 THEN RInt(initial_balance)
                    ELSE equity_curve[timestamp].equity ) ]_vars

\* C20 witness: the last row was processed FLAT, after a trade had been
\* closed on the row before; both rows record the same equity, which is no
\* longer the initial balance.
C20_Witness ==
    /\ timestamp >= 3
    /\ position_state = "CASH"
    /\ trades # <<>>
    /\ LastTrade.exit_time = timestamp - 1
    /\ equity_curve[timestamp].equity = equity_curve[timestamp - 1].equity
    /\ equity_curve[timestamp].equity # RInt(initial_balance)


-----------------------------------------------------------------------------
(* Claims about the round trip and the statistics of run_backtest, checked
   under SpecBacktest *)

\* the cash held before the entry made on the latest row, when that row
\* made no exit: the initial balance, or the flat equity of the row before
CashBeforeEntry ==
    IF timestamp = 1 THEN RInt(initial_balance)
    ELSE equity_curve[timestamp - 1].equity

\* C21: a position entered on row i (from cash, no exit on that row) and
\* closed by the exit signal of row i+1, no stop-loss or take-profit level
\* being hit on row i+1, records a trade with exit_reason "signal", exit
\* price close[i+1] and return_pct = (close[i+1] - close[i]) / close[i] * 100
\* without any fee term, and leaves the cash at
\* cash_before_entry * (1 - fee_rate) * (1 - fee_rate) * close[i+1] / close[i].
C21_SignalExitRoundTrip ==
    [][ ( /\ position_state = "LONG"
          /\ entry_time = Some(timestamp)
          /\ (trades = <<>> \/ LastTrade.exit_time # timestamp)
          /\ timestamp' = timestamp + 1
          /\ row'.signal = -1
          /\ ~RiskExit(entry_price, row', stop_loss_pct, take_profit_pct).hit_sl
          /\ ~RiskExit(entry_price, row', stop_loss_pct, take_profit_pct).hit_tp )
        => ( /\ Len(trades') = Len(trades) + 1
             /\ trades'[Len(trades')].exit_reason = "signal"
             /\ trades'[Len(trades')].entry_time = timestamp
             /\ trades'[Len(trades')].exit_time = timestamp + 1
             /\ trades'[Len(trades')].entry_price = row.close
             /\ trades'[Len(trades')].exit_price = row'.close
             /\ trades'[Len(trades')].return_pct =
                    Norm((row'.close - row.close) * 100, row.close)
             /\ balance_usdt' =
                    RMul(RMul(RMul(CashBeforeEntry, OneMinusFee), OneMinusFee),
                         Norm(row'.close, row.close)) ) ]_vars

\* an entry on row 2 at 100 closed by the exit signal of row 3 at 110
C21_Witness ==
    /\ timestamp = 3
    /\ Len(trades) = 1
    /\ trades[1].entry_time = 2
    /\ trades[1].exit_time = 3
    /\ trades[1].exit_reason = "signal"
    /\ trades[1].entry_price = 100
    /\ trades[1].exit_price = 110
    /\ position_state = "CASH"

NonDecreasing ==
    \A i \in 1..(Len(equity_curve) - 1) :
        RLe(equity_curve[i].equity, equity_curve[i + 1].equity)

\* C24: after any number of rows, max_drawdown_pct is at most 0, and it is
\* 0 when the equity curve never decreases from one row to the next.
C24_MaxDrawdownNonPositive ==
    timestamp >= 1 =>
        /\ max_drawdown_pct[1] <= 0
        /\ NonDecreasing => max_drawdown_pct = RInt(0)

\* a curve that rises and then falls: the drawdown is negative
C24_Witness ==
    /\ timestamp = 3
    /\ ~RLe(equity_curve[2].equity, equity_curve[1].equity)
    /\ ~RLe(equity_curve[2].equity, equity_curve[3].equity)
    /\ max_drawdown_pct[1] < 0

\* C26: a run that ends with no completed trade reports num_trades 0,
\* win_rate_pct, avg_return_pct, avg_win_pct and avg_loss_pct 0.0, and a
\* final_equity equal to the initial balance.
C26_NoTradesFinalEquityInitial ==
    (timestamp >= 1 /\ trades = <<>>) =>
        /\ stats.num_trades = 0
        /\ stats.win_rate_pct = RInt(0)
        /\ stats.avg_return_pct = RInt(0)
        /\ stats.avg_win_pct = RInt(0)
        /\ stats.avg_loss_pct = RInt(0)
        /\ final_equity = RInt(initial_balance)

-----------------------------------------------------------------------------
(* Claims about run_backtest on a table given up front, checked under
   SpecReplay *)

\* the five-bar table with no exit signal
HoldTable ==
    [i \in 1..Len(ScenarioCloses) |->
        [close |-> ScenarioCloses[i], high |-> ScenarioCloses[i],
         low |-> ScenarioCloses[i], signal |-> IF i = 1 THEN 1 ELSE 0]]

TpLevel == Level(Val(entry_price), 100 + Val(take_profit_pct))

SlLevel == Level(Val(entry_price), 100 - Val(stop_loss_pct))

\* the next row closes the open position at `price` for `reason`
ClosedAt(price, reason) ==
    /\ Len(trades') = Len(trades) + 1
    /\ trades'[Len(trades')].entry_time = Val(entry_time)
    /\ trades'[Len(trades')].exit_time = timestamp'
    /\ trades'[Len(trades')].entry_price = Val(entry_price)
    /\ trades'[Len(trades')].exit_price = price
    /\ trades'[Len(trades')].return_pct =
            Norm((price - Val(entry_price)) * 100, Val(entry_price))
    /\ trades'[Len(trades')].exit_reason = reason
    /\ entry_time' # entry_time

\* the next row leaves the open position as it is
StaysOpen ==
    /\ trades' = trades
    /\ position_state' = "LONG"
    /\ entry_time' = entry_time
    /\ entry_price' = entry_price
    /\ position_size' = position_size

C22_EveryRow ==
    [][ ( /\ position_state = "LONG"
          /\ take_profit_pct # None
          /\ stop_loss_pct = None
          /\ timestamp' = timestamp + 1 )
        => IF row'.high >= TpLevel THEN ClosedAt(TpLevel, "take_profit")
           ELSE IF row'.signal = -1 THEN ClosedAt(row'.close, "signal")
           ELSE StaysOpen ]_vars

C22_FiveBars ==
    (df_rows \in ScenarioTables /\ stop_loss_pct = None
        /\ take_profit_pct = Some(10)) =>
        /\ \A i \in 1..Len(trades) :
              trades[i].exit_reason = "take_profit" =>
                 trades[i] = [entry_time |-> 1, exit_time |-> 4,
                              entry_price |-> 10000, exit_price |-> 11000,
                              return_pct |-> RInt(10),
                              exit_reason |-> "take_profit"]
        /\ (df_rows = HoldTable /\ timestamp = 5) =>
              /\ Len(trades) = 1
              /\ trades[1].exit_reason = "take_profit"
        /\ (df_rows = HoldTable /\ timestamp \in 1..3) =>
              /\ trades = <<>>
              /\ position_state = "LONG"

\* C22: with take_profit_pct set and no stop-loss, each row processed while
\* LONG closes the position at the take-profit level, with exit_reason
\* "take_profit", exactly when its high reaches that level; a row below the
\* level closes it only by an exit signal, at the close, and otherwise
\* leaves it open. On closes 100, 90, 95, 130, 120 (high = low = close),
\* entry on the first bar and take_profit_pct 10%, a take-profit trade is
\* entry bar 0, exit bar 3, exit_price 110, return_pct 10, and with no exit
\* signal it is the only trade of the run.
C22_TakeProfitAtLevel == C22_EveryRow /\ []C22_FiveBars

\* the run on the five bars without exit signal, take-profit 10%, ended
C22_Witness ==
    /\ df_rows = HoldTable
    /\ stop_loss_pct = None
    /\ take_profit_pct = Some(10)
    /\ timestamp = 5
    /\ Len(trades) = 1
    /\ trades[1].exit_time = 4
    /\ trades[1].exit_price = 11000
    /\ trades[1].exit_reason = "take_profit"
    /\ row.close = 12000

C23_EveryRow ==
    [][ ( /\ position_state = "LONG"
          /\ stop_loss_pct # None
          /\ timestamp' = timestamp + 1 )
        => /\ row'.low <= SlLevel => ClosedAt(SlLevel, "stop_loss")
           /\ (row'.low > SlLevel /\ take_profit_pct = None /\ row'.signal # -1)
                 => StaysOpen ]_vars

C23_FiveBars ==
    /\ \A i, j \in 1..Len(trades) :
          i < j => trades[i].exit_time <= trades[j].entry_time
    /\ (df_rows \in ScenarioTables /\ stop_loss_pct = Some(5)
          /\ take_profit_pct = Some(10) /\ timestamp >= 2) =>
          /\ trades = << [entry_time |-> 1, exit_time |-> 2,
                          entry_price |-> 10000, exit_price |-> 9500,
                          return_pct |-> RInt(-5),
                          exit_reason |-> "stop_loss"] >>
          /\ position_state = "CASH"

\* C23: with stop_loss_pct set, each row processed while LONG whose low is
\* at or below the stop-loss level closes the position there with
\* exit_reason "stop_loss", and a row above the level does not (with no
\* take-profit and no exit signal the position stays open); a closed
\* position gets no later trade. On closes 100, 90, 95, 130, 120, entry on
\* the first bar, stop-loss 5% and take-profit 10%, the trade exits on bar 1
\* by stop_loss at 95 and the 130 of bar 3 adds no take_profit trade.
C23_StopLossFirstHit == C23_EveryRow /\ []C23_FiveBars

\* the five bars run to the end with stop-loss 5% and take-profit 10%
C23_Witness ==
    /\ df_rows = HoldTable
    /\ stop_loss_pct = Some(5)
    /\ take_profit_pct = Some(10)
    /\ timestamp = 5
    /\ Len(trades) = 1
    /\ trades[1].exit_reason = "stop_loss"
    /\ trades[1].exit_time = 2

-----------------------------------------------------------------------------
(* Claims about generate_signals and the entry of run_backtest, checked under
   SpecSignals *)

KnownStrategies == {"sma_crossover", "rsi_reversal", "rsi_trend", "rsi_v1"}

\* the indicator columns a strategy tests for before it assigns anything
RequiredColumns(strategy, params) ==
    IF strategy = "sma_crossover"
    THEN {SmaCol(params.fast), SmaCol(params.slow)}
    ELSE IF strategy = "rsi_trend" THEN {"RSI", SmaCol(params.trend_ma)}
    ELSE {"RSI"}

\* the call recorded in sig_result' is one that the claim says must fail
MustRaise ==
    \/ /\ sig_result'.fn = "generate_signals"
       /\ \/ sig_result'.strategy \notin KnownStrategies
          \/ ~(RequiredColumns(sig_result'.strategy, sig_result'.params)
                    \subseteq df.columns)
    \/ /\ sig_result'.fn = "run_backtest"
       /\ "signal" \notin df.columns

\* C27: a call of generate_signals with an unknown strategy name or with a
\* required indicator column missing, and a call of run_backtest on a table
\* without 'signal' column, raise; a call that raises leaves the caller's
\* table as it was and no row is processed: no trade, no equity point, the
\* locals of run_backtest untouched, then and afterwards.
C27_ConfigurationErrorsFirst ==
    /\ [][ sig_result' # sig_result =>
             /\ MustRaise => sig_result'.exc # ""
             /\ sig_result'.exc # "" =>
                   /\ df' = df
                   /\ UNCHANGED btVars ]_vars
    /\ [](sig_result.exc # "" =>
             /\ trades = <<>>
             /\ equity_curve = <<>>
             /\ timestamp = 0)

\* run_backtest refused a two-row table that has its indicators but no
\* 'signal' column
C27_Witness ==
    /\ sig_result.fn = "run_backtest"
    /\ sig_result.exc # ""
    /\ Len(df.rows) = 2
    /\ "RSI" \in df.columns
    /\ "signal" \notin df.columns
    /\ equity_curve = <<>>

\* the 'signal' column generate_signals gives the rows
SignalsOf(rows, columns, strategy, params) ==
    LET out == generate_signals([columns |-> columns, rows |-> rows],
                                strategy, params)
    IN  [i \in 1..Len(rows) |-> Val(out.val.rows[i]["signal"])]

Applicable(strategy, params) ==
    /\ strategy \in KnownStrategies
    /\ RequiredColumns(strategy, params) \subseteq df.columns

-----------------------------------------------------------------------------
(* Claim about load_state, checked under SpecConfig *)

-----------------------------------------------------------------------------
(* Claim about the take-profit exit of live_step_rsi_v1, checked under
   SpecEngines *)

\* C30: every trade with exit_reason "take_profit" in the ledger of the
\* live programs has exit_price = entry_price * (1 + take_profit_pct), the
\* level that triggered the exit, and a return_pct computed from that
\* exit_price (take_profit_pct percent).
C30_LiveTakeProfitAtLevel ==
    \A i \in 1..Len(ledger) :
        (ledger[i].kind = "trade" /\ ledger[i].exit_reason = "take_profit") =>
            /\ ledger[i].exit_price * 100 =
                  ledger[i].entry_price * (100 + args.take_profit_pct)
            /\ ledger[i].return_pct = RInt(args.take_profit_pct)

-----------------------------------------------------------------------------
(* Claim about _format_quantity_for_symbol, checked under SpecOrder *)

\* C31: against a LOT_SIZE filter with stepSize > 0 and minQty <= maxQty,
\* the normalized quantity is 0 or a multiple of stepSize within
\* [minQty, maxQty], and when it is not 0 it is the largest multiple of
\* stepSize not above the desired quantity clamped to [minQty, maxQty].
C31_NormalizedQuantityIsFlooredMultiple ==
    ( /\ call # NoCall
      /\ call.info.kind = "lot"
      /\ call.info.stepSize > 0
      /\ call.info.minQty <= call.info.maxQty
      /\ call.qty # None )
    => LET q == Val(call.qty)
           clamped == Max(call.info.minQty, Min(call.quantity, call.info.maxQty))
       IN  \/ q = 0
           \/ /\ q % call.info.stepSize = 0
              /\ call.info.minQty <= q
              /\ q <= call.info.maxQty
              /\ q = (clamped \div call.info.stepSize) * call.info.stepSize

-----------------------------------------------------------------------------
(* C32: one equity point per row, computed after the row's exit and entry
   handling, under SpecBacktest *)

\* the cash available to the entry block of the row just processed: the cash
\* held before the row, or the proceeds of the exit made on that row
CashAtEntry ==
    IF Len(trades') = Len(trades) + 1
    THEN RMul(RMul(position_size, RInt(trades'[Len(trades')].exit_price)), OneMinusFee)
    ELSE balance_usdt

\* C32: every row appends exactly one point to the equity curve, stamped
\* with the row and computed after the row's exit and entry handling: the
\* cash when the row ends FLAT, position_size * close when it ends LONG; on
\* a row that enters, the point is cash_before_entry * (1 - fee_rate).
C32_OneEquityPointPerRow ==
    /\ [][ timestamp' = timestamp + 1
           => ( /\ Len(equity_curve') = Len(equity_curve) + 1
                /\ SubSeq(equity_curve', 1, Len(equity_curve)) = equity_curve
                /\ equity_curve'[Len(equity_curve')].time = timestamp'
                /\ equity_curve'[Len(equity_curve')].equity =
                       IF position_state' = "CASH"
                       THEN balance_usdt'
                       ELSE RMul(position_size', RInt(row'.close))
                /\ entry_time' = Some(timestamp')
                   => equity_curve'[Len(equity_curve')].equity =
                          RMul(CashAtEntry, OneMinusFee) ) ]_vars
    /\ [](Len(equity_curve) = timestamp)

\* C32 witness: the second row entered from cash, and its equity point is
\* the flat equity of the first row less the entry fee
C32_Witness ==
    /\ timestamp = 2
    /\ position_state = "LONG"
    /\ entry_time = Some(2)
    /\ trades = <<>>
    /\ Len(equity_curve) = 2
    /\ equity_curve[1].equity = RInt(initial_balance)
    /\ equity_curve[2].equity = RMul(RInt(initial_balance), OneMinusFee)
    /\ equity_curve[2].equity = RMul(position_size, RInt(row.close))

-----------------------------------------------------------------------------
(* C33: the averages and the win rate of the stats dictionary, under
   SpecBacktest *)

\* the recorded trades with a return above zero, and the others
Winners == {i \in 1..Len(trades) : trades[i].return_pct[1] > 0}

Losers == {i \in 1..Len(trades) : trades[i].return_pct[1] <= 0}

\* C33: no average of the stats dictionary is undefined: avg_win_pct is 0.0
\* when no trade has return_pct > 0, avg_loss_pct is 0.0 when no trade has
\* return_pct <= 0, win_rate_pct is 100 * (trades with return_pct > 0) /
\* num_trades, and a trade whose return_pct is exactly 0 counts as a loss.
C33_NoUndefinedAverage ==
    timestamp >= 1
    => ( /\ stats.avg_win_pct # NaN
         /\ stats.avg_loss_pct # NaN
         /\ stats.avg_return_pct # NaN
         /\ Winners = {} => stats.avg_win_pct = RInt(0)
         /\ Losers = {} => stats.avg_loss_pct = RInt(0)
         /\ trades # <<>>
            => stats.win_rate_pct = Norm(100 * Cardinality(Winners), stats.num_trades)
         /\ stats.wins = Cardinality(Winners)
         /\ stats.losses =
                Cardinality({i \in 1..Len(trades) : trades[i].return_pct[1] < 0})
                + Cardinality({i \in 1..Len(trades) : trades[i].return_pct = RInt(0)}) )

\* C33 witness: the only trade was entered and closed at 100, a return of
\* exactly 0: one loss, no win, a win rate and both averages of 0
C33_Witness ==
    /\ Len(trades) = 1
    /\ trades[1].entry_price = 100
    /\ trades[1].exit_price = 100
    /\ trades[1].return_pct = RInt(0)
    /\ stats.losses = 1
    /\ stats.wins = 0
    /\ stats.win_rate_pct = RInt(0)
    /\ stats.avg_win_pct = RInt(0)
    /\ stats.avg_loss_pct = RInt(0)

-----------------------------------------------------------------------------
(* C37: a position still open when the rows end, under SpecBacktest *)

\* the row being processed closes the position that was open before it
\* (the row may open a new one after the exit)
ClosesPosition ==
    /\ position_state = "LONG"
    /\ (position_state' = "CASH" \/ entry_time' # entry_time)

\* C37: when the rows end while the position is LONG, no trade is recorded
\* for that position and no exit fee is charged: a trade is recorded exactly
\* when a row closes a LONG position, so the number of trades is the number
\* of LONG-to-FLAT transitions, and final_equity is position_size times the
\* last close.
C37_OpenPositionAtEndNotClosed ==
    /\ [][ timestamp' = timestamp + 1
           => /\ ClosesPosition
                 => ( /\ Len(trades') = Len(trades) + 1
                      /\ SubSeq(trades', 1, Len(trades)) = trades
                      /\ trades'[Len(trades')].entry_time = Val(entry_time) )
              /\ ~ClosesPosition => trades' = trades ]_vars
    /\ []( (timestamp = 0) => (trades = <<>> /\ position_state = "CASH") )
    /\ []( (timestamp >= 1 /\ position_state = "LONG")
           => ( /\ final_equity = RMul(position_size, RInt(row.close))
                /\ balance_usdt = RInt(0)
                /\ entry_time # None
                /\ \A i \in 1..Len(trades) :
                       trades[i].entry_time # Val(entry_time) ) )

\* C37 witness: one position was closed on row 2, another was opened on
\* row 3 and is open at the last row: one trade, equity position_size * close
C37_Witness ==
    /\ timestamp = MaxBars
    /\ position_state = "LONG"
    /\ entry_time = Some(MaxBars)
    /\ Len(trades) = 1
    /\ trades[1].exit_time = MaxBars - 1
    /\ final_equity = RMul(position_size, RInt(row.close))
    /\ RLe(final_equity, RInt(initial_balance))

-----------------------------------------------------------------------------
(* C38: the counts of the stats dictionary, under SpecBacktest *)

ExitReasons == {"take_profit", "stop_loss", "signal"}

\* the count the exit_reasons histogram holds for reason r
ReasonCount(r) ==
    IF r \in DOMAIN stats.exit_reasons THEN stats.exit_reasons[r] ELSE 0

\* C38: in the stats of a run, wins + losses = num_trades = the number of
\* recorded trades, the counts of the exit_reasons histogram add up to
\* num_trades, and every recorded exit_reason is take_profit, stop_loss or
\* signal: stop_loss only when stop_loss_pct is set, take_profit only when
\* take_profit_pct is set.
C38_StatsCountsAddUp ==
    timestamp >= 1
    => ( /\ stats.num_trades = Len(trades)
         /\ stats.wins + stats.losses = stats.num_trades
         /\ DOMAIN stats.exit_reasons \subseteq ExitReasons
         /\ \A r \in DOMAIN stats.exit_reasons : stats.exit_reasons[r] >= 1
         /\ ReasonCount("take_profit") + ReasonCount("stop_loss")
                + ReasonCount("signal") = stats.num_trades
         /\ \A i \in 1..Len(trades) :
              /\ trades[i].exit_reason \in ExitReasons
              /\ trades[i].exit_reason = "stop_loss" => stop_loss_pct # None
              /\ trades[i].exit_reason = "take_profit" => take_profit_pct # None )

\* C38 witness: a take-profit exit with a re-entry on the same row, then a
\* signal exit at the entry price: one win, one loss of exactly 0, a
\* histogram of two reasons
C38_Witness ==
    /\ Len(trades) = 2
    /\ trades[1].exit_reason = "take_profit"
    /\ trades[2].exit_reason = "signal"
    /\ trades[2].return_pct = RInt(0)
    /\ stats.wins = 1
    /\ stats.losses = 1
    /\ stats.num_trades = 2
    /\ DOMAIN stats.exit_reasons = {"take_profit", "signal"}
    /\ stats.exit_reasons["take_profit"] = 1
    /\ stats.exit_reasons["signal"] = 1

-----------------------------------------------------------------------------
(* C34: the ledger and the position in live_step_rsi_v1, under SpecEngines *)

\* the trade rows of a ledger file, the header left out
TradeRows(file) == SelectSeq(file, LAMBDA x : x.kind = "trade")

\* the trade rows the step being taken appends to the ledger
RowsAppended ==
    SubSeq(TradeRows(ledger'), Len(TradeRows(ledger)) + 1, Len(TradeRows(ledger')))

\* the step being taken moves the tracked position from LONG to FLAT
LongToFlat == Position(state).in_position /\ ~Position(state').in_position

\* C34: a step of live_step_rsi_v1 appends a trade row to the ledger exactly
\* when it moves the position from LONG to FLAT after a SELL that returned
\* an order, one row per such transition, and the completed_trades the step
\* returns are the rows it appended; a step that enters, fails or does
\* nothing appends no row.
C34_LedgerFollowsPosition ==
    [][ ( /\ program = "main_live"
          /\ cycles' = cycles + 1 )
        => ( /\ SubSeq(ledger', 1, Len(ledger)) = ledger
             /\ SubSeq(TradeRows(ledger'), 1, Len(TradeRows(ledger))) = TradeRows(ledger)
             /\ Len(RowsAppended) <= 1
             /\ RowsAppended # <<>>
                <=> ( /\ LongToFlat
                      /\ call' # NoCall
                      /\ call'.side = "SELL"
                      /\ call'.ret = "order" )
             /\ LongToFlat => Len(RowsAppended) = 1
             /\ cycle_exc' = "" => completed_trades' = RowsAppended
             /\ cycle_exc' # "" => RowsAppended = <<>>
             /\ ( \/ call' = NoCall
                  \/ call'.side = "BUY"
                  \/ call'.ret # "order" ) => ledger' = ledger ) ]_vars

\* C34 witness: the daemon entered, then sold on a returned order: the
\* position is flat, the ledger holds the header and the one trade row, and
\* that row is the completed trade of the step
C34_Witness ==
    /\ program = "main_live"
    /\ cycles >= 2
    /\ cycle_exc = ""
    /\ call # NoCall
    /\ call.side = "SELL"
    /\ call.ret = "order"
    /\ state = Some(FlatState)
    /\ Len(ledger) = 2
    /\ ledger[1] = HeaderRow
    /\ ledger[2].kind = "trade"
    /\ completed_trades = <<ledger[2]>>

-----------------------------------------------------------------------------
(* C35: an accepted SELL and a failing ledger write, under SpecEngines *)

\* C35: after a step of the daemon in which the exchange accepted a SELL
\* order, the tracked position is FLAT at the start of the next step, also
\* when writing the trade to the ledger fails in that step: the daemon never
\* submits a second SELL for a position it has already sold.
C35_AcceptedSellLeavesFlat ==
    [][ ( /\ program = "main_live"
          /\ cycles' = cycles + 1
          /\ call' # NoCall
          /\ call'.side = "SELL"
          /\ call'.ret = "order" )
        => ( /\ ~Position(state').in_position
             /\ Position(state').position_size = 0 ) ]_vars

-----------------------------------------------------------------------------
(* C36: live_step_rsi_v1 and live_loop_rsi_v1 outside the testnet, under
   SpecCalls *)

\* C36: when TRADING_ENV is not "testnet", live_step_rsi_v1 and
\* live_loop_rsi_v1 raise before creating a client, fetching any bar,
\* submitting any order or changing the position state, whatever the
\* confirmation flag is.
C36_RefusesOutsideTestnet ==
    /\ [][ ( /\ TRADING_ENV # "testnet"
             /\ (cycles' = cycles + 1 \/ daemon_pc' # daemon_pc) )
           => ( /\ cycle_exc' = "RuntimeError: TRADING_ENV must be testnet"
                /\ daemon_pc' = "raised"
                /\ clients' = <<>>
                /\ latest' = NoLatest
                /\ submitted' = <<>>
                /\ call' = NoCall
                /\ state' = state
                /\ ledger' = ledger
                /\ completed_trades' = completed_trades ) ]_vars
    /\ []( TRADING_ENV # "testnet"
           => ( /\ clients = <<>>
                /\ submitted = <<>>
                /\ latest = NoLatest
                /\ ledger = <<>>
                /\ daemon_pc # "loop"
                /\ daemon_pc # "returned" ) )

\* C36 witness: with TRADING_ENV "live", the live keys present and the
\* confirmation given, live_step_rsi_v1 was called with a long position and
\* raised: no client, no bar, no order, the position as it was
C36_Witness ==
    /\ program = "live_step_rsi_v1"
    /\ TRADING_ENV = "live"
    /\ LIVE_TRADING_CONFIRMATION = "YES_I_UNDERSTAND_THE_RISK"
    /\ "live" \in api_keys
    /\ cycles >= 1
    /\ daemon_pc = "raised"
    /\ cycle_exc = "RuntimeError: TRADING_ENV must be testnet"
    /\ state # None
    /\ Val(state).in_position
    /\ clients = <<>>
    /\ submitted = <<>>
    /\ latest = NoLatest

=============================================================================
